---- MODULE Spec2Model ----
(***************************************************************************)
(* Toolset indexing and retrieval engine of mcp-rag: the client            *)
(* (packages/client/src/index.ts, createMCPRag) and the Cypher statements  *)
(* it executes (packages/neo4j/src/index.ts, CypherBuilder), run against   *)
(* a graph store of ToolSet, Tool, Parameter and ReturnType nodes.         *)
(*                                                                         *)
(* Strings are TLA+ strings; a UTF-16 code unit is looked up in CharCode.  *)
(* A JavaScript value is a tagged record:                                  *)
(*   [t |-> "str", s |-> ...]      a string                                *)
(*   [t |-> "undef"]               undefined                               *)
(*   [t |-> "arr", items |-> ...]  an array                                *)
(*   [t |-> "obj", kv |-> ...]     an object: the sequence of its          *)
(*                                 [k, v] entries in insertion order       *)
(* Object keys of the modelled inputs are never integer-like, so the       *)
(* enumeration order of an object is its insertion order.                  *)
(***************************************************************************)
EXTENDS Integers, Sequences, FiniteSets, TLC

VARIABLES
  hashFunction,   \* config.hashFunction: "default" (absent) or "custom"
  toolRegistry,   \* Map name -> Tool, as the sequence of its entries
  toolsetHash,    \* let toolsetHash
  cypherBuilder,  \* let cypherBuilder: the toolsetHash it was built with
  migrated,       \* let migrated
  hashInput,      \* argument of the latest activeHashFunction call
  maxActiveTools, \* config.maxActiveTools
  db,             \* the graph store
  lastOp,         \* the latest client call and what it returned
  fpT,            \* fingerprint study: a registry T
  fpU,            \* fingerprint study: a registry derived from T
  fpOutT,         \* fingerprint study: computeToolsetHash over T
  fpOutU,         \* fingerprint study: computeToolsetHash over U
  wait,           \* the sync call in progress, inside waitForIndexPopulation
  calls,          \* the calls suspended at an await of ensureMigrated
  peer,           \* a second client of the same store: its closure
  migration       \* config.migration.onBeforeMigrate: "none" when absent

vars == <<hashFunction, toolRegistry, toolsetHash, cypherBuilder, migrated,
          hashInput, maxActiveTools, db, lastOp, fpT, fpU, fpOutT, fpOutU,
          wait, calls, peer, migration>>

clientVars == <<hashFunction, toolRegistry, toolsetHash, cypherBuilder,
                migrated, hashInput, maxActiveTools, db, lastOp>>

fpVars == <<fpT, fpU, fpOutT, fpOutU>>

asyncVars == <<calls, peer, migration>>

-----------------------------------------------------------------------------
(* Strings and code units                                                  *)

\* The printable ASCII characters with code units 32..95 and 97..126.
AsciiLow ==
  " !\"#$%&'()*+,-./0123456789:;<=>?@ABCDEFGHIJKLMNOPQRSTUVWXYZ[\\]^_"

AsciiHigh == "abcdefghijklmnopqrstuvwxyz{|}~"

\* input.charCodeAt(i) for a one-character string.
CharCode ==
  [c \in {SubSeq(AsciiLow, i, i) : i \in 1..Len(AsciiLow)}
         \cup {SubSeq(AsciiHigh, i, i) : i \in 1..Len(AsciiHigh)} |->
     IF \E i \in 1..Len(AsciiLow) : SubSeq(AsciiLow, i, i) = c
     THEN 31 + (CHOOSE i \in 1..Len(AsciiLow) : SubSeq(AsciiLow, i, i) = c)
     ELSE 96 + (CHOOSE i \in 1..Len(AsciiHigh) : SubSeq(AsciiHigh, i, i) = c)]

charCodeAt(s, i) == CharCode[SubSeq(s, i, i)]

\* Ordering of Array.prototype.sort() without a comparator: by code units.
RECURSIVE StrLess(_, _)
StrLess(a, b) ==
  IF Len(a) = 0 THEN Len(b) > 0
  ELSE IF Len(b) = 0 THEN FALSE
  ELSE LET ca == charCodeAt(a, 1)
           cb == charCodeAt(b, 1)
       IN  IF ca # cb THEN ca < cb ELSE StrLess(Tail(a), Tail(b))

\* Primary collation weight of a letter: its position in the alphabet.
LowerCode(c) == IF c >= 65 /\ c <= 90 THEN c + 32 ELSE c

RECURSIVE PrimaryCmp(_, _)
PrimaryCmp(a, b) ==
  IF Len(a) = 0 THEN (IF Len(b) = 0 THEN 0 ELSE -1)
  ELSE IF Len(b) = 0 THEN 1
  ELSE LET ca == LowerCode(charCodeAt(a, 1))
           cb == LowerCode(charCodeAt(b, 1))
       IN  IF ca < cb THEN -1
           ELSE IF ca > cb THEN 1
           ELSE PrimaryCmp(Tail(a), Tail(b))

\* a.localeCompare(b) < 0: alphabetical ignoring case, then lower case
\* before upper case (greater code unit first among equal letters).
LocaleLess(a, b) ==
  LET p == PrimaryCmp(a, b)
  IN  IF p # 0 THEN p < 0 ELSE StrLess(b, a)

-----------------------------------------------------------------------------
(* JavaScript values                                                       *)

JStr(s) == [t |-> "str", s |-> s]

JUndef == [t |-> "undef"]

JArr(items) == [t |-> "arr", items |-> items]

JObj(kv) == [t |-> "obj", kv |-> kv]

KV(k, v) == [k |-> k, v |-> v]

\* obj[key] of an object value (undefined when the key is absent).
Get(obj, key) ==
  IF obj.t # "obj" THEN JUndef
  ELSE IF \E i \in 1..Len(obj.kv) : obj.kv[i].k = key
       THEN obj.kv[CHOOSE i \in 1..Len(obj.kv) : obj.kv[i].k = key].v
       ELSE JUndef

\* Object.keys(obj)
Keys(obj) == [i \in 1..Len(obj.kv) |-> obj.kv[i].k]

\* JavaScript truthiness of the modelled values.
Truthy(v) == v.t # "undef" /\ ~(v.t = "str" /\ v.s = "")

\* a || b
OrElse(a, b) == IF Truthy(a) THEN a ELSE b

-----------------------------------------------------------------------------
(* Sorting                                                                 *)

RECURSIVE InsertKey(_, _)
InsertKey(sorted, k) ==
  IF Len(sorted) = 0 THEN <<k>>
  ELSE IF StrLess(k, Head(sorted)) THEN <<k>> \o sorted
  ELSE <<Head(sorted)>> \o InsertKey(Tail(sorted), k)

\* keys.sort()
RECURSIVE SortKeys(_)
SortKeys(keys) ==
  IF Len(keys) = 0 THEN <<>>
  ELSE InsertKey(SortKeys(SubSeq(keys, 1, Len(keys) - 1)), keys[Len(keys)])

RECURSIVE InsertEntry(_, _)
InsertEntry(sorted, e) ==
  IF Len(sorted) = 0 THEN <<e>>
  ELSE IF LocaleLess(e.name, Head(sorted).name) THEN <<e>> \o sorted
  ELSE <<Head(sorted)>> \o InsertEntry(Tail(sorted), e)

\* entries.sort(([a], [b]) => a.localeCompare(b))
RECURSIVE SortEntries(_)
SortEntries(entries) ==
  IF Len(entries) = 0 THEN <<>>
  ELSE InsertEntry(SortEntries(SubSeq(entries, 1, Len(entries) - 1)),
                   entries[Len(entries)])

-----------------------------------------------------------------------------
(* Fingerprint engine                                                      *)

RECURSIVE sortObjectKeysDeep(_)
RECURSIVE SortedEntries(_, _)

\* The loop "for (const key of sortedKeys) result[key] = ..." of
\* sortObjectKeysDeep.
SortedEntries(obj, sortedKeys) ==
  IF Len(sortedKeys) = 0 THEN <<>>
  ELSE <<KV(Head(sortedKeys), sortObjectKeysDeep(Get(obj, Head(sortedKeys))))>>
       \o SortedEntries(obj, Tail(sortedKeys))

\* A wrong sortObjectKeysDeep: the keys of the outermost object only.
sortObjectKeysShallow(obj) ==
  IF obj.t = "obj"
  THEN LET sortedKeys == SortKeys(Keys(obj))
       IN  JObj([i \in 1..Len(sortedKeys) |->
                   KV(sortedKeys[i], Get(obj, sortedKeys[i]))])
  ELSE obj

sortObjectKeysDeep(obj) ==
  IF obj.t = "arr"
  THEN JArr([i \in 1..Len(obj.items) |-> sortObjectKeysDeep(obj.items[i])])
  ELSE IF obj.t = "obj"
  THEN JObj(SortedEntries(obj, SortKeys(Keys(obj))))
  ELSE obj

\* A wrong cloneToolForHashing: the description is left out.
cloneToolWithoutDescription(tool) ==
  JObj(<<KV("inputSchema", tool.inputSchema)>>)

cloneToolForHashing(tool) ==
  JObj(<<KV("description", tool.description),
         KV("inputSchema", tool.inputSchema)>>)

\* JSON.stringify of a string: quotes, with quote and backslash escaped.
RECURSIVE Escape(_)
Escape(s) ==
  IF Len(s) = 0 THEN ""
  ELSE LET c == Head(s)
       IN  (IF c = "\"" THEN "\\\"" ELSE IF c = "\\" THEN "\\\\" ELSE c)
           \o Escape(Tail(s))

Quote(s) == "\"" \o Escape(s) \o "\""

RECURSIVE JoinComma(_)
JoinComma(parts) ==
  IF Len(parts) = 0 THEN ""
  ELSE IF Len(parts) = 1 THEN Head(parts)
  ELSE Head(parts) \o "," \o JoinComma(Tail(parts))

RECURSIVE Stringify(_)
RECURSIVE StringifyEntries(_)

\* The members of an object: entries whose value is undefined are omitted.
StringifyEntries(kv) ==
  IF Len(kv) = 0 THEN <<>>
  ELSE IF Head(kv).v.t = "undef" THEN StringifyEntries(Tail(kv))
  ELSE <<Quote(Head(kv).k) \o ":" \o Stringify(Head(kv).v)>>
       \o StringifyEntries(Tail(kv))

\* JSON.stringify(value)
Stringify(v) ==
  IF v.t = "str" THEN Quote(v.s)
  ELSE IF v.t = "arr"
  THEN "[" \o JoinComma([i \in 1..Len(v.items) |->
                           IF v.items[i].t = "undef" THEN "null"
                           ELSE Stringify(v.items[i])]) \o "]"
  ELSE IF v.t = "obj"
  THEN "{" \o JoinComma(StringifyEntries(v.kv)) \o "}"
  ELSE "null"

\* 32-bit integers are kept as their signed value; 2^16 splits them into
\* halves so that no intermediate result leaves the integers of the checker.
Half == 65536

\* ToInt32 of hi * 2^16 + lo, for small integers hi and lo of either sign.
ToInt32(hi, lo) ==
  LET l == lo % Half
      h == (hi + (lo \div Half)) % Half
  IN  IF h >= Half \div 2 THEN (h - Half) * Half + l ELSE h * Half + l

\* hash << 5
Shl5(hash) == ToInt32((hash \div Half) * 32, (hash % Half) * 32)

\* One round of the loop: hash = (hash << 5) - hash + char; hash = hash & hash
HashStep(hash, char) ==
  LET shifted == Shl5(hash)
  IN  ToInt32((shifted \div Half) - (hash \div Half),
              (shifted % Half) - (hash % Half) + char)

\* The loop "for (let i = 0; i < input.length; i++)" over the characters
\* i..j of input, starting from hash.  The rounds are applied in the order
\* of the loop; the range is halved, and the hash after the first half is
\* compared with itself so that it is evaluated before the second half
\* starts, which keeps the evaluation shallow.
RECURSIVE HashLoop(_, _, _, _)
HashLoop(input, i, j, hash) ==
  IF i > j THEN hash
  ELSE IF i = j THEN HashStep(hash, charCodeAt(input, i))
  ELSE LET mid == (i + j) \div 2
           left == HashLoop(input, i, mid, hash)
       IN  IF left = left THEN HashLoop(input, mid + 1, j, left) ELSE left

HexDigit(d) == SubSeq("0123456789abcdef", d + 1, d + 1)

\* n.toString(16) for 0 <= n < 2^16
RECURSIVE Hex(_)
Hex(n) == IF n < 16 THEN HexDigit(n) ELSE Hex(n \div 16) \o HexDigit(n % 16)

\* The four hexadecimal digits of n, 0 <= n < 2^16
Hex4(n) ==
  HexDigit(n \div 4096) \o HexDigit((n \div 256) % 16)
    \o HexDigit((n \div 16) % 16) \o HexDigit(n % 16)

\* Math.abs(hash).toString(16); the magnitude may be 2^31 and is kept in halves
AbsHex(hash) ==
  LET uhi == (hash \div Half) % Half
      ulo == hash % Half
      mlo == IF hash < 0 THEN (Half - ulo) % Half ELSE ulo
      mhi == IF hash < 0 THEN Half - uhi - (IF ulo > 0 THEN 1 ELSE 0) ELSE uhi
  IN  IF mhi > 0 THEN Hex(mhi) \o Hex4(mlo) ELSE Hex(mlo)

defaultHashFunction(input) == "toolset-" \o AbsHex(HashLoop(input, 1, Len(input), 0))

\* A hashFunction supplied by the caller (the one of the unit tests).
customHashFunction(input) == "custom-" \o ToString(Len(input))

\* hashFunction || defaultHashFunction, applied to input
hashOf(hf, input) ==
  IF hf = "custom" THEN customHashFunction(input)
  ELSE defaultHashFunction(input)

\* Object.fromEntries(toolEntries) of the entries sorted by name
sortedToolsObject(registry) ==
  LET toolEntries == SortEntries(registry)
  IN  JObj([i \in 1..Len(toolEntries) |->
              KV(toolEntries[i].name, cloneToolForHashing(toolEntries[i].tool))])

\* jsonString of computeToolsetHash, for the given registry
jsonString(registry) == Stringify(sortObjectKeysDeep(sortedToolsObject(registry)))

-----------------------------------------------------------------------------
(* Tool definitions offered to the client                                  *)

Tool(description, inputSchema, execute) ==
  [description |-> description, inputSchema |-> inputSchema,
   execute |-> execute]

\* { type: 'object', properties: { q: { type: 'string', description: 'd' } },
\*   required: ['q'] }
SchemaQ ==
  JObj(<<KV("type", JStr("object")),
         KV("properties",
            JObj(<<KV("q", JObj(<<KV("type", JStr("string")),
                                  KV("description", JStr("d"))>>))>>)),
         KV("required", JArr(<<JStr("q")>>))>>)

\* { type: 'object', properties: {} }
SchemaNoParams ==
  JObj(<<KV("type", JStr("object")), KV("properties", JObj(<<>>))>>)

\* jsonSchema({ type: 'object', properties: { n: { enum: ['x', 'y'] } } }):
\* the wrapper of the AI SDK, a property without type and description, no
\* list of required properties
SchemaWrapped ==
  JObj(<<KV("jsonSchema",
            JObj(<<KV("type", JStr("object")),
                   KV("properties",
                      JObj(<<KV("n", JObj(<<KV("enum",
                                               JArr(<<JStr("x"),
                                                      JStr("y")>>))>>))>>))>>))>>)

ToolAa == Tool(JStr("Aa"), SchemaQ, "f")

ToolBB == Tool(JStr("BB"), SchemaQ, "f")

ToolNoDescription == Tool(JUndef, JObj(<<KV("type", JStr("object"))>>), "g")

ToolEmpty == Tool(JStr("Tvrwqz"), SchemaNoParams, "g")

ToolWrapped == Tool(JStr("C"), SchemaWrapped, "f")

\* { type: 'object', properties: { q: { type: 'string' },
\*   r: { description: 'e' } }, required: ['r'] }
SchemaTwo ==
  JObj(<<KV("type", JStr("object")),
         KV("properties",
            JObj(<<KV("q", JObj(<<KV("type", JStr("string"))>>)),
                   KV("r", JObj(<<KV("description", JStr("e"))>>))>>)),
         KV("required", JArr(<<JStr("r")>>))>>)

ToolTwo == Tool(JStr("D"), SchemaTwo, "f")

Entry(name, tool) == [name |-> name, tool |-> tool]

-----------------------------------------------------------------------------
(* The graph store and the statements of CypherBuilder run against it      *)
(*                                                                         *)
(* db.toolsets     ToolSet nodes     [id, hash, toolCount]                 *)
(* db.tools        Tool nodes        [id, toolset, name, description,      *)
(*                                    embedding]; toolset is the source of *)
(*                                    the node's HAS_TOOL edge             *)
(* db.params       Parameter nodes   [id, tool, name, type, description,   *)
(*                                    required]; tool is the source of the *)
(*                                    node's HAS_PARAM edge                *)
(* db.returnTypes  ReturnType nodes  [id, tool, type, description]         *)
(* db.index        whether tool_vector_index exists                        *)
(* Timestamps and the embeddings of Parameter and ReturnType nodes are     *)
(* written but read by no statement, and are left out.                     *)

EmptyDb ==
  [toolsets |-> {}, tools |-> {}, params |-> {}, returnTypes |-> {},
   index |-> FALSE]

NodeIds(d) ==
  {n.id : n \in d.toolsets} \cup {n.id : n \in d.tools}
    \cup {n.id : n \in d.params} \cup {n.id : n \in d.returnTypes}

\* randomUUID() and the identity of a created node: an identifier no node
\* of the store has.  It is the pair of a scope, the hash for a ToolSet node
\* and "hash/name" for a Tool node and the nodes created for it, and the
\* smallest number that makes the pair unused.
randomUUID(d, scope) ==
  <<scope,
    CHOOSE i \in 0..Cardinality(NodeIds(d)) :
      /\ <<scope, i>> \notin NodeIds(d)
      /\ \A j \in 0..(i - 1) : <<scope, j>> \in NodeIds(d)>>

\* A string property read from a JavaScript value with "|| fallback"
StrOr(v, fallback) == IF Truthy(v) /\ v.t = "str" THEN v.s ELSE fallback

\* rawSchema?.jsonSchema || rawSchema || {}
schemaOf(tool) ==
  OrElse(Get(tool.inputSchema, "jsonSchema"),
         OrElse(tool.inputSchema, JObj(<<>>)))

\* schema?.properties || {}
parametersOf(tool) == OrElse(Get(schemaOf(tool), "properties"), JObj(<<>>))

\* schema?.required || []
requiredOf(tool) == OrElse(Get(schemaOf(tool), "required"), JArr(<<>>))

\* A wrong required.includes: any list of required names will do.
IncludesAny(arr, name) == arr.t = "arr" /\ arr.items # <<>>

\* required.includes(paramName)
Includes(arr, name) ==
  /\ arr.t = "arr"
  /\ \E i \in 1..Len(arr.items) : arr.items[i] = JStr(name)

\* The Parameter statements of createDecomposedTool, run for the entries
\* idx.. of Object.entries(parameters).
RECURSIVE createParameters(_, _, _, _, _)
createParameters(d, toolId, entries, required, idx) ==
  IF idx > Len(entries) THEN d
  ELSE LET paramName == entries[idx].k
           paramDef == entries[idx].v
           node == [id |-> randomUUID(d, toolId[1]),
                    tool |-> toolId,
                    name |-> paramName,
                    type |-> StrOr(Get(paramDef, "type"), "unknown"),
                    description |-> StrOr(Get(paramDef, "description"), ""),
                    required |-> Includes(required, paramName)]
           d1 == [d EXCEPT !.params = @ \cup {node}]
       IN  createParameters(d1, toolId, entries, required, idx + 1)

\* A wrong createDecomposedTool: no ReturnType statement.
createNoReturnType(d, toolId) == d

\* The ReturnType statement of createDecomposedTool
createReturnType(d, toolId) ==
  [d EXCEPT !.returnTypes = @ \cup
     {[id |-> randomUUID(d, toolId[1]), tool |-> toolId, type |-> "object",
       description |-> "Tool execution result"]}]

\* The statement of createDecomposedTool run on one row (toolset): the Tool
\* node and its HAS_TOOL edge, its Parameter nodes, its ReturnType node.
createDecomposedTool(d, toolsetId, input) ==
  LET toolId == randomUUID(d, toolsetId[1] \o "/" \o input.name)
      node == [id |-> toolId,
               toolset |-> toolsetId,
               name |-> input.name,
               description |-> StrOr(input.tool.description, ""),
               embedding |-> input.embeddings.tool]
      d1 == [d EXCEPT !.tools = @ \cup {node}]
      params == parametersOf(input.tool)
      d2 == IF params.t = "obj"
            THEN createParameters(d1, toolId, params.kv,
                                  requiredOf(input.tool), 1)
            ELSE d1
  IN  createReturnType(d2, toolId)

\* A wrong createDecomposedTools: the statements of the first tool only.
createFirstToolOnly(d, toolsetId, tools, idx) ==
  IF idx > Len(tools) \/ idx > 1 THEN d
  ELSE createDecomposedTool(d, toolsetId, tools[idx])

\* The statements of createDecomposedTools run on one row: the tools in the
\* order given, each handed the toolset by "WITH toolset".
RECURSIVE createDecomposedTools(_, _, _, _)
createDecomposedTools(d, toolsetId, tools, idx) ==
  IF idx > Len(tools) THEN d
  ELSE createDecomposedTools(createDecomposedTool(d, toolsetId, tools[idx]),
                             toolsetId, tools, idx + 1)

\* The tool statements run once per row of "MERGE (toolset:ToolSet ...)"
RECURSIVE createForRows(_, _, _)
createForRows(d, rows, tools) ==
  IF rows = {} THEN d
  ELSE LET row == CHOOSE r \in rows : \A q \in rows : r[2] <= q[2]
       IN  createForRows(createDecomposedTools(d, row, tools, 1),
                         rows \ {row}, tools)

\* A wrong migrate: nothing is written when the ToolSet node exists.
migrateOnce(d, hash, tools) ==
  IF \E n \in d.toolsets : n.hash = hash THEN d
  ELSE LET id == randomUUID(d, hash)
           d1 == [d EXCEPT !.toolsets =
                    @ \cup {[id |-> id, hash |-> hash,
                             toolCount |-> Len(tools)]}]
       IN  createForRows(d1, {id}, tools)

\* A wrong migrate: the MERGE matches any ToolSet node, whatever its hash.
migrateIntoAnyToolSet(d, hash, tools) ==
  LET matched == d.toolsets
      created == IF matched = {}
                 THEN {[id |-> randomUUID(d, hash), hash |-> hash, toolCount |-> 0]}
                 ELSE {}
      rows == {n.id : n \in matched \cup created}
      d1 == [d EXCEPT !.toolsets =
               {[n EXCEPT !.toolCount = Len(tools)] :
                  n \in matched \cup created}]
  IN  createForRows(d1, rows, tools)

\* The statement of CypherBuilder.migrate run against the store:
\* MERGE the ToolSet by hash, SET toolCount, then the tool statements.
migrate(d, hash, tools) ==
  LET matched == {n \in d.toolsets : n.hash = hash}
      created == IF matched = {}
                 THEN {[id |-> randomUUID(d, hash), hash |-> hash, toolCount |-> 0]}
                 ELSE {}
      rows == {n.id : n \in matched \cup created}
      d1 == [d EXCEPT !.toolsets =
               {n \in @ : n.hash # hash}
                 \cup {[n EXCEPT !.toolCount = Len(tools)] :
                         n \in matched \cup created}]
  IN  createForRows(d1, rows, tools)

\* The nodes a ToolSet node owns
ToolsOf(d, toolsetId) == {n \in d.tools : n.toolset = toolsetId}

ParamsOf(d, toolId) == {n \in d.params : n.tool = toolId}

ReturnTypesOf(d, toolId) == {n \in d.returnTypes : n.tool = toolId}

\* The map of null properties that "collect(DISTINCT {name: param.name,
\* ...})" collects for a tool without Parameter nodes.
NullParam == [null |-> TRUE]

NullReturnType == [null |-> TRUE]

\* collect(DISTINCT {name, type, description, required}) AS params
ParamMaps(d, toolId) ==
  IF ParamsOf(d, toolId) = {} THEN {NullParam}
  ELSE {[name |-> n.name, type |-> n.type, description |-> n.description,
         required |-> n.required] : n \in ParamsOf(d, toolId)}

\* The tool maps of one ToolSet node, one per (tool, returnType) row,
\* collected DISTINCT
ToolMaps(d, toolsetId) ==
  UNION {
    IF ReturnTypesOf(d, t.id) = {}
    THEN {[name |-> t.name, description |-> t.description,
           parameters |-> ParamMaps(d, t.id),
           returnType |-> NullReturnType]}
    ELSE {[name |-> t.name, description |-> t.description,
           parameters |-> ParamMaps(d, t.id),
           returnType |-> [type |-> r.type, description |-> r.description]] :
            r \in ReturnTypesOf(d, t.id)}
    : t \in ToolsOf(d, toolsetId)}

\* A wrong getToolsetByHash: the tools are matched, not optionally matched.
getToolsetByHashMatched(d, hash) ==
  {[hash |-> n.hash, toolCount |-> n.toolCount, tools |-> ToolMaps(d, n.id)] :
     n \in {m \in d.toolsets : m.hash = hash /\ ToolsOf(d, m.id) # {}}}

\* The rows of the statement of CypherBuilder.getToolsetByHash: one per
\* ToolSet node with the hash
getToolsetByHashRows(d, hash) ==
  {[hash |-> n.hash, toolCount |-> n.toolCount, tools |-> ToolMaps(d, n.id)] :
     n \in {m \in d.toolsets : m.hash = hash}}

\* The rows of the statement of CypherBuilder.deleteToolsetByHash: one per
\* ToolSet node with the hash, counting the distinct nodes it owns
deleteToolsetByHashRows(d, hash) ==
  {[deletedToolsets |-> 1,
    deletedTools |-> Cardinality(ToolsOf(d, n.id)),
    deletedParams |->
      Cardinality(UNION {ParamsOf(d, t.id) : t \in ToolsOf(d, n.id)}),
    deletedReturnTypes |->
      Cardinality(UNION {ReturnTypesOf(d, t.id) : t \in ToolsOf(d, n.id)})] :
     n \in {m \in d.toolsets : m.hash = hash}}

\* A wrong delete: every Tool node with the name of an owned tool goes.
deleteByToolName(d, hash) ==
  LET gone == {n \in d.toolsets : n.hash = hash}
      names == {t.name : t \in UNION {ToolsOf(d, n.id) : n \in gone}}
      tools == {t \in d.tools : t.name \in names}
      toolIds == {t.id : t \in tools}
  IN  [d EXCEPT !.toolsets = @ \ gone,
                !.tools = @ \ tools,
                !.params = {n \in @ : n.tool \notin toolIds},
                !.returnTypes = {n \in @ : n.tool \notin toolIds}]

\* A wrong delete: the Parameter nodes of the deleted tools are left.
deleteLeavingParameters(d, hash) ==
  LET gone == {n \in d.toolsets : n.hash = hash}
      tools == UNION {ToolsOf(d, n.id) : n \in gone}
      toolIds == {t.id : t \in tools}
  IN  [d EXCEPT !.toolsets = @ \ gone,
                !.tools = @ \ tools,
                !.returnTypes = {n \in @ : n.tool \notin toolIds}]

\* The store after the statement of CypherBuilder.deleteToolsetByHash:
\* DETACH DELETE of the matched ToolSet nodes and of the nodes they own
deleteToolsetByHashEffect(d, hash) ==
  LET gone == {n \in d.toolsets : n.hash = hash}
      tools == UNION {ToolsOf(d, n.id) : n \in gone}
      toolIds == {t.id : t \in tools}
  IN  [d EXCEPT !.toolsets = @ \ gone,
                !.tools = @ \ tools,
                !.params = {n \in @ : n.tool \notin toolIds},
                !.returnTypes = {n \in @ : n.tool \notin toolIds}]

-----------------------------------------------------------------------------
(* Vector search over tool_vector_index                                    *)

\* The cosine similarity of the index, for vectors without negative
\* component, as a whole number of hundredths that grows with the cosine
cosineSimilarity(u, v) ==
  LET dot == u[1] * v[1] + u[2] * v[2]
      uu == u[1] * u[1] + u[2] * u[2]
      vv == v[1] * v[1] + v[2] * v[2]
  IN  (100 * dot * dot) \div (uu * vv)

Score(tool, vector) == cosineSimilarity(tool.embedding, vector)

Min(a, b) == IF a <= b THEN a ELSE b

\* db.index.vector.queryNodes(index, k, vector): the k Tool nodes nearest to
\* the vector, of any ToolSet; among nodes of equal score any may be taken
queryNodes(d, k, vector) ==
  {S \in SUBSET d.tools :
     /\ Cardinality(S) = Min(k, Cardinality(d.tools))
     /\ \A x \in S : \A y \in d.tools \ S :
          Score(x, vector) >= Score(y, vector)}

\* ORDER BY score DESC over Tool nodes: rows of equal score in any order
RECURSIVE OrderNodes(_, _)
OrderNodes(nodes, vector) ==
  IF nodes = {} THEN {<<>>}
  ELSE UNION {{<<x>> \o rest : rest \in OrderNodes(nodes \ {x}, vector)} :
                x \in {n \in nodes :
                         \A m \in nodes :
                           Score(n, vector) >= Score(m, vector)}}

\* A wrong ORDER BY: the rows come in any order.
RECURSIVE AnyOrder(_)
AnyOrder(rows) ==
  IF rows = {} THEN {<<>>}
  ELSE UNION {{<<x>> \o rest : rest \in AnyOrder(rows \ {x})} : x \in rows}

\* ORDER BY toolScore DESC over result rows: rows of equal relevance in any
\* order
RECURSIVE OrderRows(_)
OrderRows(rows) ==
  IF rows = {} THEN {<<>>}
  ELSE UNION {{<<x>> \o rest : rest \in OrderRows(rows \ {x})} :
                x \in {r \in rows :
                         \A q \in rows : r.relevance >= q.relevance}}

\* LIMIT n
Limit(rows, n) == SubSeq(rows, 1, Min(n, Len(rows)))

\* The row of depth low for one Tool node
LowRow(tool, vector) ==
  [name |-> tool.name, description |-> tool.description,
   component |-> "tool", relevance |-> Score(tool, vector)]

\* The row of depth mid for one Tool node; rows equal in name, description,
\* schema and relevance are one group of the aggregating RETURN
MidRow(d, tool, vector) ==
  [name |-> tool.name, description |-> tool.description,
   schema |-> ParamMaps(d, tool.id),
   relevance |-> Score(tool, vector),
   matches |-> {[component |-> "tool", score |-> Score(tool, vector)]}]

\* The rows of depth full for one Tool node: collect(...)[0] AS returnType
\* takes one of the collected return types
FullRows(d, tool, vector) ==
  {[name |-> tool.name, description |-> tool.description,
    schema |-> [parameters |-> ParamMaps(d, tool.id), returns |-> r],
    relevance |-> Score(tool, vector),
    matches |-> {[component |-> "tool", score |-> Score(tool, vector)]}] :
     r \in IF ReturnTypesOf(d, tool.id) = {} THEN {NullReturnType}
           ELSE {[type |-> x.type, description |-> x.description] :
                   x \in ReturnTypesOf(d, tool.id)}}

\* The results the statement of CypherBuilder.vectorSearchDecomposed can
\* return from the store, each a sequence of rows
vectorSearchDecomposed(d, vector, limit, minScore, depth) ==
  IF depth = "low"
  THEN UNION {
         {[i \in 1..Len(nodes) |-> LowRow(nodes[i], vector)] :
            nodes \in OrderNodes({t \in S : Score(t, vector) >= minScore},
                                 vector)}
         : S \in queryNodes(d, limit, vector)}
  ELSE IF depth = "mid"
  THEN UNION {
         {Limit(rows, limit) :
            rows \in OrderRows({MidRow(d, t, vector) :
                                  t \in {x \in S :
                                           Score(x, vector) >= minScore}})}
         : S \in queryNodes(d, limit * 3, vector)}
  ELSE UNION {
         {Limit(rows, limit) :
            rows \in OrderRows(UNION {FullRows(d, t, vector) :
                                        t \in {x \in S :
                                                 Score(x, vector)
                                                   >= minScore}})}
         : S \in queryNodes(d, limit * 5, vector)}

\* result.records.map(record => record.get('name'))
NamesOf(rows) == [i \in 1..Len(rows) |-> rows[i].name]

-----------------------------------------------------------------------------
(* The client returned by createMCPRag                                     *)

\* The number of ToolSet nodes the store is let to hold
MaxToolSets == 2

Names == {"a", "B"}

\* The (name, tool) pairs offered to addTool
ToolInputs ==
  {Entry("a", ToolAa), Entry("a", ToolEmpty), Entry("B", ToolWrapped)}

\* The values of config.tools offered to createMCPRag
InitialTools == {<<>>, <<Entry("B", ToolWrapped), Entry("a", ToolAa)>>}

\* The values of config.hashFunction and config.maxActiveTools offered to
\* createMCPRag: absent or given, the default of 10 or fewer than the tools
Configs ==
  {[hashFunction |-> "default", maxActiveTools |-> 10],
   [hashFunction |-> "custom", maxActiveTools |-> 1]}

\* The registries the client can hold: at most one tool per name
Registries ==
  {<<>>} \cup {<<e>> : e \in ToolInputs}
    \cup {<<e, f>> : <<e, f>> \in
            {p \in ToolInputs \X ToolInputs : p[1].name # p[2].name}}

\* jsonString of computeToolsetHash, tabulated over the registries
JsonTable == [registry \in Registries |-> jsonString(registry)]

jsonStringOf(registry) == JsonTable[registry]

\* activeHashFunction(jsonString), tabulated over the strings of JsonTable
HashTable ==
  [hf \in {"default", "custom"} |->
     [input \in {JsonTable[registry] : registry \in Registries} |->
        hashOf(hf, input)]]

activeHashFunction(hf, input) ==
  IF input \in DOMAIN HashTable[hf] THEN HashTable[hf][input]
  ELSE hashOf(hf, input)

\* computeToolsetHash(), for the given hash function and registry
computeToolsetHash(hf, registry) ==
  activeHashFunction(hf, jsonStringOf(registry))

\* The call of the embedding provider that throws, if any, or the poll of
\* the index that never reports it populated
Faults ==
  {"none", "shouldMigrate", "createVectorIndex", "embedding", "migrate",
   "timeout"}

\* The calls of sync studied: without and with the wait for the index, and
\* every throwing call for the latter
SyncInputs ==
  {[waitForIndex |-> FALSE, fault |-> "none"]}
    \cup {[waitForIndex |-> TRUE, fault |-> f] : f \in Faults}

\* The embedding provider: a vector determined by the text, never the
\* zero vector
generateEmbedding(text) ==
  <<1 + (Len(text) % 3), charCodeAt(text, 1) % 3>>

\* The part of generateToolEmbeddings the store reads: the tool's vector
generateToolEmbeddings(name, tool) ==
  [tool |-> generateEmbedding(name \o ": " \o StrOr(tool.description, ""))]

\* toolsWithEmbeddings of ensureMigrated
toolsWithEmbeddings(registry) ==
  [i \in 1..Len(registry) |->
     [name |-> registry[i].name,
      tool |-> registry[i].tool,
      embeddings |-> generateToolEmbeddings(registry[i].name,
                                            registry[i].tool)]]

\* A wrong existence check: any ToolSet node makes the migration unneeded.
shouldMigrateWhenEmpty(d, hash) == d.toolsets = {}

\* A wrong existence check: the migration is always needed.
shouldMigrateAlways(d, hash) == TRUE

\* defaultShouldMigrate: count(ts) === 0 for the ToolSet nodes with the hash
defaultShouldMigrate(d, hash) == {n \in d.toolsets : n.hash = hash} = {}

\* A wrong ensureMigrated: the flag is set whatever becomes of the calls.
OutcomeSynced(isMigrated, d, outcome, trace) ==
  [migrated |-> TRUE, db |-> d, outcome |-> outcome, trace |-> trace]

\* A wrong ensureMigrated: the session is not closed when a call throws.
OutcomeUnclosed(isMigrated, d, outcome, trace) ==
  [migrated |-> isMigrated, db |-> d, outcome |-> outcome,
   trace |-> IF outcome = "error" THEN SubSeq(trace, 1, Len(trace) - 1)
             ELSE trace]

\* What ensureMigrated leaves: the flag, the store, how it ended and the
\* calls it made
Outcome(isMigrated, d, outcome, trace) ==
  [migrated |-> isMigrated, db |-> d, outcome |-> outcome, trace |-> trace]

\* A wrong ensureMigrated: the existence check is skipped.
ensureMigratedAlways(isMigrated, hash, builder, registry, d, fault) ==
  Outcome(TRUE,
          migrate([d EXCEPT !.index = TRUE], builder,
                  toolsWithEmbeddings(registry)),
          "ok",
          <<"session", "createVectorIndex">>
            \o [i \in 1..Len(registry) |-> "embeddings"]
            \o <<"migrate", "close">>)

\* ensureMigrated(): isMigrated is the flag on entry, hash the toolsetHash
\* the existence check reads, builder the hash of cypherBuilder.  The result
\* carries the flag and the store on exit and the calls made, in order.
ensureMigrated(isMigrated, hash, builder, registry, d, fault) ==
  IF isMigrated THEN Outcome(TRUE, d, "ok", <<>>)
  ELSE IF fault = "shouldMigrate"
  THEN Outcome(FALSE, d, "error", <<"session", "shouldMigrate", "close">>)
  ELSE IF ~defaultShouldMigrate(d, hash)
  THEN Outcome(TRUE, d, "ok", <<"session", "shouldMigrate", "close">>)
  ELSE IF fault = "createVectorIndex"
  THEN Outcome(FALSE, d, "error",
               <<"session", "shouldMigrate", "createVectorIndex", "close">>)
  ELSE LET d1 == [d EXCEPT !.index = TRUE]
           embeds == [i \in 1..Len(registry) |-> "embeddings"]
           before == <<"session", "shouldMigrate", "createVectorIndex">>
                       \o embeds
       IN  IF fault = "embedding" /\ Len(registry) > 0
           THEN Outcome(FALSE, d1, "error", before \o <<"close">>)
           ELSE IF fault = "migrate"
           THEN Outcome(FALSE, d1, "error", before \o <<"migrate", "close">>)
           ELSE Outcome(TRUE,
                        migrate(d1, builder, toolsWithEmbeddings(registry)),
                        "ok", before \o <<"migrate", "close">>)

InTrace(trace, event) == \E i \in 1..Len(trace) : trace[i] = event

\* waitForIndexPopulation: "ok" when a poll finds the index ONLINE and fully
\* populated, "error" when maxWaitMs passes first
waitForIndexPopulation(d, fault) ==
  IF d.index /\ fault # "timeout" THEN "ok" ELSE "error"

Op(op, arg, outcome, result, trace) ==
  [op |-> op, arg |-> arg, outcome |-> outcome, result |-> result,
   trace |-> trace]

None == [t |-> "none"]

Null == [t |-> "null"]

ZeroCounts ==
  [deletedToolsets |-> 0, deletedTools |-> 0, deletedParams |-> 0,
   deletedReturnTypes |-> 0]

\* toolRegistry.has(name)
Has(registry, name) == \E i \in 1..Len(registry) : registry[i].name = name

\* toolRegistry.set(name, tool): in place for a known name, appended otherwise
MapSet(registry, name, tool) ==
  IF Has(registry, name)
  THEN [i \in 1..Len(registry) |->
          IF registry[i].name = name THEN Entry(name, tool) ELSE registry[i]]
  ELSE Append(registry, Entry(name, tool))

\* toolRegistry.delete(name)
MapDelete(registry, name) ==
  SelectSeq(registry, LAMBDA e : e.name # name)

\* What is observed of a call that returns nothing: the fingerprint when it
\* was made and whether the name was registered
Before(name) == [hash |-> toolsetHash, known |-> Has(toolRegistry, name)]

\* No sync call is in progress
NoWait ==
  [pc |-> "idle", waitForIndex |-> FALSE, maxWaitMs |-> 0, elapsed |-> 0,
   polls |-> 0, issued |-> 0, state |-> "", populationPercent |-> 0,
   ready |-> FALSE]

\* The calls studied step by step
CallIds == {1, 2}

\* No call has been made
NoCall ==
  [op |-> "none", client |-> 1, pc |-> "idle", hash |-> "", tools |-> <<>>,
   statements |-> <<>>, need |-> FALSE, writes |-> 0, overlap |-> FALSE,
   changed |-> FALSE, outcome |-> "", returned |-> ""]

\* No second client, and no onBeforeMigrate hook
NoPeer ==
  /\ peer = [toolRegistry |-> <<>>, toolsetHash |-> "", cypherBuilder |-> "",
             migrated |-> FALSE]
  /\ migration = "none"

\* createMCPRag(config)
ClientInit ==
  /\ \E config \in Configs :
       /\ hashFunction = config.hashFunction
       /\ maxActiveTools = config.maxActiveTools
  /\ toolRegistry \in InitialTools
  /\ hashInput = jsonStringOf(toolRegistry)
  /\ toolsetHash = activeHashFunction(hashFunction, hashInput)
  /\ cypherBuilder = toolsetHash
  /\ migrated = FALSE
  /\ db = EmptyDb
  /\ lastOp = Op("createMCPRag", None, "ok", None, <<>>)
  /\ wait = NoWait
  /\ calls = [i \in CallIds |-> NoCall]

\* A wrong addTool: the hash is left as it was.
addToolStale(name, tool) ==
  /\ toolRegistry' = MapSet(toolRegistry, name, tool)
  /\ migrated' = FALSE
  /\ lastOp' = Op("addTool", name, "ok", Before(name), <<>>)
  /\ UNCHANGED <<hashFunction, maxActiveTools, db, hashInput, toolsetHash, cypherBuilder>>

addTool(name, tool) ==
  /\ toolRegistry' = MapSet(toolRegistry, name, tool)
  /\ migrated' = FALSE
  /\ hashInput' = jsonStringOf(toolRegistry')
  /\ toolsetHash' = activeHashFunction(hashFunction, hashInput')
  /\ cypherBuilder' = toolsetHash'
  /\ lastOp' = Op("addTool", name, "ok", Before(name), <<>>)
  /\ UNCHANGED <<hashFunction, maxActiveTools, db>>

removeTool(name) ==
  /\ toolRegistry' = MapDelete(toolRegistry, name)
  /\ IF Has(toolRegistry, name)
     THEN /\ migrated' = FALSE
          /\ hashInput' = jsonStringOf(toolRegistry')
          /\ toolsetHash' = activeHashFunction(hashFunction, hashInput')
          /\ cypherBuilder' = toolsetHash'
     ELSE UNCHANGED <<migrated, hashInput, toolsetHash, cypherBuilder>>
  /\ lastOp' = Op("removeTool", name, "ok", Before(name), <<>>)
  /\ UNCHANGED <<hashFunction, maxActiveTools, db>>

\* sync({ waitForIndex }); the error thrown is named by the step that threw
sync(waitForIndex, fault) ==
  /\ hashInput' = jsonStringOf(toolRegistry)
  /\ toolsetHash' = activeHashFunction(hashFunction, hashInput')
  /\ cypherBuilder' = toolsetHash'
  /\ \/ Cardinality(db.toolsets) < MaxToolSets
     \/ ~defaultShouldMigrate(db, toolsetHash')
  /\ LET r == ensureMigrated(FALSE, toolsetHash', cypherBuilder',
                             toolRegistry, db, fault)
         polled == r.outcome = "ok" /\ waitForIndex
         waited == IF polled THEN waitForIndexPopulation(r.db, fault)
                   ELSE "ok"
         trace == r.trace \o (IF polled
                              THEN <<"session", "checkVectorIndex", "close">>
                              ELSE <<>>)
     IN  /\ migrated' = r.migrated
         /\ db' = r.db
         /\ lastOp' =
              IF r.outcome = "ok" /\ waited = "ok"
              THEN Op("sync", waitForIndex, "ok", [hash |-> toolsetHash'],
                      trace)
              ELSE Op("sync", waitForIndex, "error",
                      [error |-> IF r.outcome = "ok" THEN "timeout"
                                 ELSE fault],
                      trace)
  /\ UNCHANGED <<hashFunction, maxActiveTools, toolRegistry>>

\* A wrong selectActiveTools: the search is not limited.
selectEveryTool(d, prompt, maxTools) ==
  {NamesOf(rows) :
     rows \in vectorSearchDecomposed(d, generateEmbedding(prompt),
                                     Cardinality(d.tools), 0, "low")}

\* selectActiveTools(prompt, maxTools): the lists of names the search of
\* depth low can return
selectActiveTools(d, prompt, maxTools) ==
  {NamesOf(rows) :
     rows \in vectorSearchDecomposed(d, generateEmbedding(prompt), maxTools,
                                     0, "low")}

\* The keys of activeToolSet: the selected names the registry has, each once,
\* in the order of their first selection
RECURSIVE activeToolSet(_, _)
activeToolSet(registry, selectedTools) ==
  IF selectedTools = <<>> THEN <<>>
  ELSE LET front == SubSeq(selectedTools, 1, Len(selectedTools) - 1)
           name == selectedTools[Len(selectedTools)]
           keys == activeToolSet(registry, front)
       IN  IF Has(registry, name) /\ \A i \in 1..Len(keys) : keys[i] # name
           THEN Append(keys, name)
           ELSE keys

\* An optional array of the options: absent, or given with its items
Absent == [given |-> FALSE, items |-> <<>>]

Given(items) == [given |-> TRUE, items |-> items]

\* The options read by generateText; a prompt that is absent is read as the
\* empty string is, as falsy
Options(prompt, messages, activeTools) ==
  [prompt |-> prompt, messages |-> messages, activeTools |-> activeTools]

\* The options offered to generateText
GenerateInputs ==
  {Options("bcd", Absent, Absent),
   Options("", Given(<<"Bq">>), Absent),
   Options("Bq", Absent, Given(<<"zz", "a", "B", "a">>)),
   Options("", Absent, Given(<<"B">>))}

\* The calls of generateText that can throw, beyond those of ensureMigrated
GenerateFaults ==
  (Faults \ {"timeout"}) \cup {"promptEmbedding", "vectorSearch"}

\* The calls of generateText studied: each of the options with no call
\* throwing, and every throwing call for a prompt without activeTools
GenerateCases ==
  {[options |-> o, fault |-> "none"] : o \in GenerateInputs}
    \cup {[options |-> Options("bcd", Absent, Absent), fault |-> f] :
            f \in GenerateFaults}

\* prompt || messages?.[messages.length - 1]?.content || ''
promptText(options) ==
  IF options.prompt # "" THEN options.prompt
  ELSE IF options.messages.given /\ options.messages.items # <<>>
  THEN options.messages.items[Len(options.messages.items)]
  ELSE ""

\* A wrong generateText: every name of activeTools is handed on.
generateTextUnfiltered(options, fault) ==
  /\ options.activeTools.given
  /\ lastOp' = Op("generateText", options, "ok",
                  [tools |-> options.activeTools.items], <<"generateText">>)
  /\ UNCHANGED <<hashFunction, maxActiveTools, toolRegistry, toolsetHash,
                 cypherBuilder, hashInput, migrated, db>>

\* generateText(options); the result is the tool map handed to the text
\* generation of the AI SDK, by its keys
generateText(options, fault) ==
  /\ \/ migrated
     \/ Cardinality(db.toolsets) < MaxToolSets
     \/ ~defaultShouldMigrate(db, toolsetHash)
  /\ LET r == ensureMigrated(migrated, toolsetHash, cypherBuilder,
                             toolRegistry, db, fault)
         searched == r.outcome = "ok" /\ ~options.activeTools.given
         embedded == searched /\ fault # "promptEmbedding"
         found == embedded /\ fault # "vectorSearch" /\ r.db.index
         trace == r.trace
                    \o (IF searched THEN <<"session", "promptEmbedding">>
                        ELSE <<>>)
                    \o (IF embedded THEN <<"vectorSearch">> ELSE <<>>)
                    \o (IF searched THEN <<"close">> ELSE <<>>)
     IN  /\ migrated' = r.migrated
         /\ db' = r.db
         /\ IF r.outcome # "ok"
            THEN lastOp' = Op("generateText", options, "error",
                              [error |-> fault], trace)
            ELSE IF searched /\ ~found
            THEN lastOp' = Op("generateText", options, "error",
                              [error |-> IF embedded THEN "vectorSearch"
                                         ELSE "promptEmbedding"],
                              trace)
            ELSE \E selectedTools \in
                      IF searched
                      THEN selectActiveTools(r.db, promptText(options),
                                             maxActiveTools)
                      ELSE {SelectSeq(options.activeTools.items,
                                      LAMBDA name : Has(toolRegistry, name))} :
                   lastOp' =
                     IF options.prompt = "" /\ ~options.messages.given
                     THEN Op("generateText", options, "error",
                             [error |-> "Either prompt or messages must be provided"],
                             trace)
                     ELSE Op("generateText", options, "ok",
                             [tools |-> activeToolSet(toolRegistry,
                                                      selectedTools)],
                             trace \o <<"generateText">>)
  /\ UNCHANGED <<hashFunction, maxActiveTools, toolRegistry, toolsetHash,
                 cypherBuilder, hashInput>>

\* getToolsetByHash(hash): null without a row, else the first row
getToolsetByHash(hash) ==
  /\ LET rows == getToolsetByHashRows(db, hash)
     IN  IF rows = {}
         THEN lastOp' = Op("getToolsetByHash", hash, "ok", Null,
                           <<"session", "getToolsetByHash", "close">>)
         ELSE \E record \in rows :
                lastOp' = Op("getToolsetByHash", hash, "ok",
                             [hash |-> record.hash,
                              toolCount |-> record.toolCount,
                              tools |-> record.tools],
                             <<"session", "getToolsetByHash", "close">>)
  /\ UNCHANGED <<hashFunction, maxActiveTools, toolRegistry, toolsetHash, cypherBuilder,
                 migrated, hashInput, db>>

\* A wrong deleteToolsetByHash: the statement is built by cypherBuilder, for
\* the client's own fingerprint.
deleteOwnToolset(hash) ==
  /\ LET rows == deleteToolsetByHashRows(db, cypherBuilder)
     IN  IF rows = {}
         THEN lastOp' = Op("deleteToolsetByHash", hash, "ok", ZeroCounts,
                           <<"session", "deleteToolsetByHash", "close">>)
         ELSE \E record \in rows :
                lastOp' = Op("deleteToolsetByHash", hash, "ok", record,
                             <<"session", "deleteToolsetByHash", "close">>)
  /\ db' = deleteToolsetByHashEffect(db, cypherBuilder)
  /\ UNCHANGED <<hashFunction, maxActiveTools, toolRegistry, toolsetHash, cypherBuilder,
                 migrated, hashInput>>

\* deleteToolsetByHash(hash): zero counts without a row, else the first row
deleteToolsetByHash(hash) ==
  /\ LET rows == deleteToolsetByHashRows(db, hash)
     IN  IF rows = {}
         THEN lastOp' = Op("deleteToolsetByHash", hash, "ok", ZeroCounts,
                           <<"session", "deleteToolsetByHash", "close">>)
         ELSE \E record \in rows :
                lastOp' = Op("deleteToolsetByHash", hash, "ok", record,
                             <<"session", "deleteToolsetByHash", "close">>)
  /\ db' = deleteToolsetByHashEffect(db, hash)
  /\ UNCHANGED <<hashFunction, maxActiveTools, toolRegistry, toolsetHash, cypherBuilder,
                 migrated, hashInput>>

\* The hashes offered to getToolsetByHash and deleteToolsetByHash
HashArgs ==
  {toolsetHash, "non-existent-hash"} \cup {n.hash : n \in db.toolsets}

-----------------------------------------------------------------------------
(* The fingerprint as a function: a registry T and a registry U derived    *)
(* from it by reordering and by edits                                      *)

SwapAt(seq, i) ==
  [j \in 1..Len(seq) |->
     IF j = i THEN seq[i + 1] ELSE IF j = i + 1 THEN seq[i] ELSE seq[j]]

\* The values that differ from v by the order of two adjacent keys of one
\* object, at any depth
RECURSIVE KeySwaps(_)
KeySwaps(v) ==
  IF v.t = "obj"
  THEN {JObj(SwapAt(v.kv, i)) : i \in 1..(Len(v.kv) - 1)}
       \cup UNION {{JObj([v.kv EXCEPT ![i] = KV(v.kv[i].k, w)]) :
                      w \in KeySwaps(v.kv[i].v)} : i \in 1..Len(v.kv)}
  ELSE IF v.t = "arr"
  THEN UNION {{JArr([v.items EXCEPT ![i] = w]) : w \in KeySwaps(v.items[i])} :
                i \in 1..Len(v.items)}
  ELSE {}

\* The values that differ from v by the order of two adjacent elements of
\* one array, at any depth
RECURSIVE ItemSwaps(_)
ItemSwaps(v) ==
  IF v.t = "arr"
  THEN {JArr(SwapAt(v.items, i)) : i \in 1..(Len(v.items) - 1)}
       \cup UNION {{JArr([v.items EXCEPT ![i] = w]) :
                      w \in ItemSwaps(v.items[i])} : i \in 1..Len(v.items)}
  ELSE IF v.t = "obj"
  THEN UNION {{JObj([v.kv EXCEPT ![i] = KV(v.kv[i].k, w)]) :
                 w \in ItemSwaps(v.kv[i].v)} : i \in 1..Len(v.kv)}
  ELSE {}

\* The (name, tool) pairs a registry is edited with
FpToolInputs ==
  ToolInputs \cup {Entry("a", ToolBB), Entry("B", ToolNoDescription)}

FpInit ==
  /\ fpT \in InitialTools \cup
       {<<Entry("a", ToolAa), Entry("B", ToolWrapped)>>,
        <<Entry("B", ToolNoDescription), Entry("a", ToolEmpty)>>}
  /\ fpU = fpT
  /\ fpOutT = activeHashFunction(hashFunction, jsonString(fpT))
  /\ fpOutU = fpOutT

FpApply(registry) ==
  /\ fpU' = registry
  /\ fpOutU' = activeHashFunction(hashFunction, jsonString(registry))
  /\ UNCHANGED <<fpT, fpOutT>>
  /\ UNCHANGED <<clientVars, wait, asyncVars>>

\* Two tools are registered in the other order
FpSwapTools ==
  \E i \in 1..(Len(fpU) - 1) : FpApply(SwapAt(fpU, i))

\* Two keys of a tool's schema, at any depth, are written in the other order
FpSwapKeys ==
  \E i \in 1..Len(fpU) : \E w \in KeySwaps(fpU[i].tool.inputSchema) :
    FpApply([fpU EXCEPT ![i].tool.inputSchema = w])

\* Two elements of an array of a tool's schema are written in the other order
FpSwapItems ==
  \E i \in 1..Len(fpU) : \E w \in ItemSwaps(fpU[i].tool.inputSchema) :
    FpApply([fpU EXCEPT ![i].tool.inputSchema = w])

\* A tool is added or replaced by another definition
FpSetTool ==
  \E e \in FpToolInputs : FpApply(MapSet(fpU, e.name, e.tool))

\* A tool is removed
FpDeleteTool ==
  \E name \in Names : Has(fpU, name) /\ FpApply(MapDelete(fpU, name))

-----------------------------------------------------------------------------
(* Specifications                                                          *)

AddTool ==
  /\ \E e \in ToolInputs : addTool(e.name, e.tool)
  /\ UNCHANGED <<fpVars, wait, asyncVars>>

RemoveTool ==
  /\ \E name \in Names : removeTool(name)
  /\ UNCHANGED <<fpVars, wait, asyncVars>>

\* A call is made to throw only in runs that make the call
Sync ==
  /\ \E input \in SyncInputs :
       /\ sync(input.waitForIndex, input.fault)
       /\ input.fault = "none" \/ lastOp'.outcome = "error"
  /\ UNCHANGED <<fpVars, wait, asyncVars>>

GenerateText ==
  /\ \E input \in GenerateCases :
       /\ generateText(input.options, input.fault)
       /\ input.fault = "none" \/ lastOp'.outcome = "error"
  /\ UNCHANGED <<fpVars, wait, asyncVars>>

GetToolsetByHash ==
  /\ \E hash \in HashArgs : getToolsetByHash(hash)
  /\ UNCHANGED <<fpVars, wait, asyncVars>>

DeleteToolsetByHash ==
  /\ \E hash \in HashArgs : deleteToolsetByHash(hash)
  /\ UNCHANGED <<fpVars, wait, asyncVars>>

\* One client and its store
Init ==
  /\ ClientInit
  /\ NoPeer
  /\ fpT = <<>>
  /\ fpU = <<>>
  /\ fpOutT = ""
  /\ fpOutU = ""

Next ==
  \/ AddTool
  \/ RemoveTool
  \/ Sync
  \/ GenerateText
  \/ GetToolsetByHash
  \/ DeleteToolsetByHash

Spec == Init /\ [][Next]_vars

\* The fingerprint of registries, the client left as constructed
InitFp ==
  /\ ClientInit
  /\ NoPeer
  /\ toolRegistry = <<>>
  /\ FpInit

NextFp ==
  \/ FpSwapTools
  \/ FpSwapKeys
  \/ FpSwapItems
  \/ FpSetTool
  \/ FpDeleteTool

SpecFp == InitFp /\ [][NextFp]_vars

-----------------------------------------------------------------------------
(* The statements of CypherBuilder run one by one against a store          *)

\* The number of Tool nodes the store is let to hold
MaxToolNodes == 4

\* new CypherBuilder({ toolsetHash })
StoreHashes == {"h1", "h2"}

\* The tools arrays offered to migrate
StoreTools ==
  {toolsWithEmbeddings(registry) :
     registry \in {<<>>, <<Entry("a", ToolEmpty)>>, <<Entry("c", ToolTwo)>>,
                   <<Entry("a", ToolAa), Entry("B", ToolWrapped)>>}}

\* The options offered to vectorSearchDecomposed; limit 5, minScore 0 and
\* depth low are those of a call that leaves them out
SearchInputs ==
  {[vector |-> generateEmbedding(text), limit |-> lm[1], minScore |-> lm[2],
    depth |-> depth] :
     text \in {"bcd"}, lm \in {<<1, 0>>, <<5, 0>>, <<2, 50>>},
     depth \in {"low", "mid", "full"}}

StoreInit ==
  /\ ClientInit
  /\ NoPeer
  /\ hashFunction = "default"
  /\ toolRegistry = <<>>
  /\ fpT = <<>>
  /\ fpU = <<>>
  /\ fpOutT = ""
  /\ fpOutU = ""

StoreApply(d, op) ==
  /\ db' = d
  /\ lastOp' = op
  /\ UNCHANGED <<hashFunction, maxActiveTools, toolRegistry, toolsetHash,
                 cypherBuilder, migrated, hashInput>>
  /\ UNCHANGED <<fpVars, wait, asyncVars>>

\* session.run of CypherBuilder.createVectorIndex
StoreCreateVectorIndex ==
  StoreApply([db EXCEPT !.index = TRUE],
             Op("createVectorIndex", None, "ok", None, <<>>))

\* session.run of the statement of builder.migrate({ tools })
StoreMigrate ==
  \E hash \in StoreHashes : \E tools \in StoreTools :
    /\ Cardinality(db.tools) + Len(tools) <= MaxToolNodes
    /\ StoreApply(migrate(db, hash, tools),
                  Op("migrate", [hash |-> hash, tools |-> tools], "ok", None,
                     <<>>))

\* session.run of the statement of CypherBuilder.getToolsetByHash
StoreGetToolsetByHash ==
  \E hash \in StoreHashes :
    StoreApply(db, Op("getToolsetByHash", hash, "ok",
                      getToolsetByHashRows(db, hash), <<>>))

\* session.run of the statement of CypherBuilder.deleteToolsetByHash
StoreDeleteToolsetByHash ==
  \E hash \in StoreHashes :
    StoreApply(deleteToolsetByHashEffect(db, hash),
               Op("deleteToolsetByHash", hash, "ok",
                  deleteToolsetByHashRows(db, hash), <<>>))

\* session.run of the statement of builder.vectorSearchDecomposed(options);
\* the procedure fails without the index
StoreVectorSearch ==
  \E options \in SearchInputs :
    IF ~db.index
    THEN StoreApply(db, Op("vectorSearchDecomposed", options, "error",
                           [error |-> "vectorSearch"], <<>>))
    ELSE \E rows \in vectorSearchDecomposed(db, options.vector,
                                            options.limit, options.minScore,
                                            options.depth) :
           StoreApply(db, Op("vectorSearchDecomposed", options, "ok", rows,
                             <<>>))

NextStore ==
  \/ StoreCreateVectorIndex
  \/ StoreMigrate
  \/ StoreGetToolsetByHash
  \/ StoreDeleteToolsetByHash
  \/ StoreVectorSearch

\* The statements of the builder, in any sequence
SpecStore == StoreInit /\ [][NextStore]_vars

-----------------------------------------------------------------------------
(* The statements CypherBuilder builds: the query text, its line breaks    *)
(* written as spaces and its backquotes left out, and the bound            *)
(* parameters as a sequence of pairs of a name and a value                 *)

Statement(cypher, params) == [params |-> params, cypher |-> cypher]

\* CypherBuilder.createVectorIndex({ indexName, dimensions })
createVectorIndex(indexName, dimensions) ==
  Statement("CREATE VECTOR INDEX " \o indexName \o " IF NOT EXISTS "
              \o "FOR (t:Tool) ON t.embedding OPTIONS {indexConfig: {"
              \o "vector.dimensions: $dimensions, "
              \o "vector.similarity_function: 'cosine'}}",
            <<(<<"dimensions", dimensions>>)>>)

\* CypherBuilder.checkVectorIndex({ indexName })
checkVectorIndex(indexName) ==
  Statement("SHOW VECTOR INDEXES YIELD name, state, populationPercent "
              \o "WHERE name = $indexName "
              \o "RETURN name, state, populationPercent",
            <<(<<"indexName", indexName>>)>>)

\* The statement of getToolsetByHash() of new CypherBuilder({ toolsetHash })
getToolsetByHashStatement(hash) ==
  Statement("MATCH (toolset:ToolSet {hash: $toolset_hash}) "
              \o "OPTIONAL MATCH (toolset)-[:HAS_TOOL]->(tool:Tool) "
              \o "OPTIONAL MATCH (tool)-[:HAS_PARAM]->(param:Parameter) "
              \o "OPTIONAL MATCH (tool)-[:RETURNS]->(returnType:ReturnType) "
              \o "WITH toolset, tool, collect(DISTINCT {name: param.name, "
              \o "type: param.type, description: param.description, "
              \o "required: param.required}) AS params, returnType "
              \o "WITH toolset, collect(DISTINCT CASE WHEN tool IS NOT NULL "
              \o "THEN {name: tool.name, description: tool.description, "
              \o "parameters: params, returnType: {type: returnType.type, "
              \o "description: returnType.description}} END) AS tools "
              \o "RETURN toolset.hash AS hash, "
              \o "toolset.updatedAt AS updatedAt, "
              \o "toolset.toolCount AS toolCount, "
              \o "[t IN tools WHERE t IS NOT NULL] AS tools",
            <<(<<"toolset_hash", hash>>)>>)

\* The statement of deleteToolsetByHash() of new CypherBuilder({ toolsetHash })
deleteToolsetByHashStatement(hash) ==
  Statement("MATCH (toolset:ToolSet {hash: $toolset_hash}) "
              \o "OPTIONAL MATCH (toolset)-[:HAS_TOOL]->(tool:Tool) "
              \o "OPTIONAL MATCH (tool)-[:HAS_PARAM]->(param:Parameter) "
              \o "OPTIONAL MATCH (tool)-[:RETURNS]->(returnType:ReturnType) "
              \o "WITH toolset, collect(DISTINCT tool) AS tools, "
              \o "collect(DISTINCT param) AS params, "
              \o "collect(DISTINCT returnType) AS returnTypes "
              \o "WITH toolset, tools, params, returnTypes, "
              \o "1 AS toolsetCount, size(tools) AS toolCount, "
              \o "size(params) AS paramCount, "
              \o "size(returnTypes) AS returnTypeCount "
              \o "FOREACH (t IN tools | DETACH DELETE t) "
              \o "FOREACH (p IN params | DETACH DELETE p) "
              \o "FOREACH (r IN returnTypes | DETACH DELETE r) "
              \o "DETACH DELETE toolset "
              \o "RETURN toolsetCount AS deletedToolsets, "
              \o "toolCount AS deletedTools, paramCount AS deletedParams, "
              \o "returnTypeCount AS deletedReturnTypes",
            <<(<<"toolset_hash", hash>>)>>)

\* collect(DISTINCT {...}) AS params of the depths mid and full
CollectParams ==
  "collect(DISTINCT {name: param.name, type: param.type, "
    \o "required: param.required, description: param.description}) AS params"

\* The text of vectorSearchDecomposed for a depth
vectorSearchCypher(depth) ==
  IF depth = "low"
  THEN "CALL db.index.vector.queryNodes($indexName, $limit, $queryVector) "
         \o "YIELD node AS tool, score WHERE score >= $minScore "
         \o "RETURN tool.name AS name, tool.description AS description, "
         \o "'tool' AS component, score AS relevance ORDER BY score DESC"
  ELSE IF depth = "mid"
  THEN "CALL db.index.vector.queryNodes($indexName, $limit * 3, $queryVector) "
         \o "YIELD node AS tool, score AS toolScore "
         \o "WHERE toolScore >= $minScore "
         \o "OPTIONAL MATCH (tool)-[:HAS_PARAM]->(param:Parameter) "
         \o "WITH tool, toolScore, 'tool' AS matchComponent, "
         \o "toolScore AS matchScore, " \o CollectParams \o " "
         \o "RETURN tool.name AS name, tool.description AS description, "
         \o "toString(params) AS schema, toolScore AS relevance, "
         \o "COLLECT(DISTINCT {component: matchComponent, "
         \o "score: matchScore}) AS matches "
         \o "ORDER BY toolScore DESC LIMIT $limit"
  ELSE "CALL db.index.vector.queryNodes($indexName, $limit * 5, $queryVector) "
         \o "YIELD node AS tool, score AS toolScore "
         \o "WHERE toolScore >= $minScore "
         \o "OPTIONAL MATCH (tool)-[:HAS_PARAM]->(param:Parameter) "
         \o "OPTIONAL MATCH (tool)-[:RETURNS]->(returnType:ReturnType) "
         \o "WITH tool, toolScore, 'tool' AS matchComponent, "
         \o "toolScore AS matchScore, " \o CollectParams \o ", "
         \o "collect(DISTINCT {type: returnType.type, "
         \o "description: returnType.description})[0] AS returnType "
         \o "RETURN tool.name AS name, tool.description AS description, "
         \o "toString({parameters: params, returns: returnType}) AS schema, "
         \o "toolScore AS relevance, "
         \o "COLLECT(DISTINCT {component: matchComponent, "
         \o "score: matchScore}) AS matches "
         \o "ORDER BY toolScore DESC LIMIT $limit"

\* The statement of vectorSearchDecomposed(options)
vectorSearchStatement(options, indexName) ==
  Statement(vectorSearchCypher(options.depth),
            <<(<<"queryVector", options.vector>>),
              (<<"limit", options.limit>>),
              (<<"indexName", indexName>>),
              (<<"minScore", options.minScore>>)>>)

\* The Parameter statements of one tool, for the entries idx.. of its
\* properties, their parameter names prefixed by the index of the tool
RECURSIVE parameterStatements(_, _, _)
parameterStatements(toolPrefix, entries, idx) ==
  IF idx > Len(entries) THEN ""
  ELSE LET param == "param" \o ToString(idx - 1)
           bound == "$" \o toolPrefix \o param
       IN  "CREATE (" \o param \o ":Parameter {id: randomUUID()}) "
             \o "SET " \o param \o ".name = " \o bound \o "_name, "
             \o param \o ".toolId = tool.id, "
             \o param \o ".type = " \o bound \o "_type, "
             \o param \o ".description = " \o bound \o "_description, "
             \o param \o ".required = " \o bound \o "_required, "
             \o param \o ".embedding = " \o bound \o "_embedding, "
             \o param \o ".updatedAt = datetime() "
             \o "WITH toolset, tool, " \o param \o " "
             \o "MERGE (tool)-[:HAS_PARAM]->(" \o param \o ") "
             \o parameterStatements(toolPrefix, entries, idx + 1)

\* The values bound for the parameters of one tool
RECURSIVE parameterParams(_, _, _, _)
parameterParams(toolPrefix, entries, required, idx) ==
  IF idx > Len(entries) THEN <<>>
  ELSE LET bound == toolPrefix \o "param" \o ToString(idx - 1)
       IN  <<(<<bound \o "_name", entries[idx].k>>),
             (<<bound \o "_type",
                StrOr(Get(entries[idx].v, "type"), "unknown")>>),
             (<<bound \o "_description",
                StrOr(Get(entries[idx].v, "description"), "")>>),
             (<<bound \o "_required", Includes(required, entries[idx].k)>>)>>
             \o parameterParams(toolPrefix, entries, required, idx + 1)

\* The text createDecomposedTool gives for a tool, as createDecomposedTools
\* prefixes its parameter names
toolStatements(toolPrefix, input) ==
  LET params == parametersOf(input.tool)
  IN  "CREATE (tool:Tool {id: randomUUID()}) "
        \o "SET tool.name = $" \o toolPrefix \o "tool_name, "
        \o "tool.description = $" \o toolPrefix \o "tool_description, "
        \o "tool.embedding = $" \o toolPrefix \o "tool_embedding, "
        \o "tool.updatedAt = datetime() "
        \o "WITH toolset, tool MERGE (toolset)-[:HAS_TOOL]->(tool) "
        \o (IF params.t = "obj"
            THEN parameterStatements(toolPrefix, params.kv, 1) ELSE "")
        \o "CREATE (returnType:ReturnType {id: randomUUID()}) "
        \o "SET returnType.toolId = tool.id, returnType.type = 'object', "
        \o "returnType.description = 'Tool execution result', "
        \o "returnType.embedding = $" \o toolPrefix \o "return_embedding, "
        \o "returnType.updatedAt = datetime() "
        \o "WITH toolset, tool, returnType "
        \o "MERGE (tool)-[:RETURNS]->(returnType)"

\* The values createDecomposedTool binds for a tool
toolParams(toolPrefix, input) ==
  LET params == parametersOf(input.tool)
  IN  <<(<<toolPrefix \o "tool_name", input.name>>),
        (<<toolPrefix \o "tool_description",
           StrOr(input.tool.description, "")>>),
        (<<toolPrefix \o "tool_embedding", input.embeddings.tool>>)>>
        \o (IF params.t = "obj"
            THEN parameterParams(toolPrefix, params.kv,
                                 requiredOf(input.tool), 1)
            ELSE <<>>)

\* The values createDecomposedTools binds for the tools idx..
RECURSIVE toolsParams(_, _)
toolsParams(tools, idx) ==
  IF idx > Len(tools) THEN <<>>
  ELSE toolParams("t" \o ToString(idx - 1) \o "_", tools[idx])
         \o toolsParams(tools, idx + 1)

\* The text of createDecomposedTools for the tools idx..
RECURSIVE toolsStatements(_, _)
toolsStatements(tools, idx) ==
  IF idx > Len(tools) THEN ""
  ELSE toolStatements("t" \o ToString(idx - 1) \o "_", tools[idx])
         \o (IF idx < Len(tools)
             THEN " WITH toolset " \o toolsStatements(tools, idx + 1)
             ELSE "")

\* The statement of migrate({ tools }) of new CypherBuilder({ toolsetHash })
migrateStatement(hash, tools) ==
  Statement("MERGE (toolset:ToolSet {hash: $toolset_hash}) "
              \o "SET toolset.updatedAt = datetime(), "
              \o "toolset.toolCount = $tool_count "
              \o (IF Len(tools) = 0 THEN "RETURN toolset"
                  ELSE "WITH toolset " \o toolsStatements(tools, 1)),
            toolsParams(tools, 1)
              \o <<(<<"toolset_hash", hash>>),
                   (<<"tool_count", Len(tools)>>)>>)

\* The index names offered to createVectorIndex, checkVectorIndex and
\* vectorSearchDecomposed; the first is the default
IndexNames == {"tool_vector_index", "custom_index"}

\* dimensions: 1536
Dimensions == 1536

\* Two calls of one method, and the two statements built
Built(method, inputs, statements) ==
  /\ lastOp' = Op(method, inputs, "ok", statements, <<>>)
  /\ UNCHANGED <<hashFunction, maxActiveTools, toolRegistry, toolsetHash,
                 cypherBuilder, migrated, hashInput, db>>
  /\ UNCHANGED <<fpVars, wait, asyncVars>>

BuildMigrate ==
  \E h1 \in StoreHashes, h2 \in StoreHashes :
    \E tools1 \in StoreTools, tools2 \in StoreTools :
      Built("migrate",
            <<[hash |-> h1, tools |-> tools1], [hash |-> h2, tools |-> tools2]>>,
            <<migrateStatement(h1, tools1), migrateStatement(h2, tools2)>>)

BuildVectorSearch ==
  \E o1 \in SearchInputs, depth2 \in {"low", "mid", "full"} :
    \E n1 \in IndexNames, n2 \in IndexNames :
      LET o2 == [o1 EXCEPT !.depth = depth2]
      IN  Built("vectorSearchDecomposed",
                <<[depth |-> o1.depth, indexName |-> n1],
                  [depth |-> o2.depth, indexName |-> n2]>>,
                <<vectorSearchStatement(o1, n1),
                  vectorSearchStatement(o2, n2)>>)

BuildGetToolsetByHash ==
  \E h1 \in StoreHashes, h2 \in StoreHashes :
    Built("getToolsetByHash", <<h1, h2>>,
          <<getToolsetByHashStatement(h1), getToolsetByHashStatement(h2)>>)

BuildDeleteToolsetByHash ==
  \E h1 \in StoreHashes, h2 \in StoreHashes :
    Built("deleteToolsetByHash", <<h1, h2>>,
          <<deleteToolsetByHashStatement(h1),
            deleteToolsetByHashStatement(h2)>>)

BuildCreateVectorIndex ==
  \E n1 \in IndexNames, n2 \in IndexNames :
    Built("createVectorIndex", <<n1, n2>>,
          <<createVectorIndex(n1, Dimensions),
            createVectorIndex(n2, Dimensions)>>)

BuildCheckVectorIndex ==
  \E n1 \in IndexNames, n2 \in IndexNames :
    Built("checkVectorIndex", <<n1, n2>>,
          <<checkVectorIndex(n1), checkVectorIndex(n2)>>)

NextCypher ==
  \/ BuildMigrate
  \/ BuildVectorSearch
  \/ BuildGetToolsetByHash
  \/ BuildDeleteToolsetByHash
  \/ BuildCreateVectorIndex
  \/ BuildCheckVectorIndex

\* The methods of the builder, each called on two inputs
SpecCypher == StoreInit /\ [][NextCypher]_vars

-----------------------------------------------------------------------------
(* sync step by step: waitForIndexPopulation polls the index               *)
(*                                                                         *)
(* wait.pc                 "idle", "test" (at the while condition), "poll" *)
(*                         (awaiting session.run), "sleep" (awaiting the   *)
(*                         timer), "resolved", "rejected"                  *)
(* wait.elapsed            Date.now() - startTime, in ms                   *)
(* wait.polls              the polls issued                                *)
(* wait.issued             the elapsed time when the latest was issued     *)
(* wait.state,             what the latest poll returned; "" when it       *)
(* wait.populationPercent  returned no record                              *)
(* wait.ready              a poll has returned ONLINE and 100              *)

\* The longest time a poll or a timer takes beyond its least, in units of
\* the timer's delay
MaxLateness == 1

\* setTimeout(resolve, 500)
PollIntervalMs == 500

IndexName == "tool_vector_index"

\* The options offered to sync
WaitInputs ==
  {[waitForIndex |-> FALSE, maxWaitMs |-> 500]}
    \cup {[waitForIndex |-> TRUE, maxWaitMs |-> ms] : ms \in {0, 500, 1000}}

\* What a poll of SHOW VECTOR INDEXES can return: no record, or the state
\* and the population of the index
IndexStatuses ==
  {[found |-> FALSE, state |-> "", populationPercent |-> 0],
   [found |-> TRUE, state |-> "POPULATING", populationPercent |-> 50],
   [found |-> TRUE, state |-> "ONLINE", populationPercent |-> 50],
   [found |-> TRUE, state |-> "ONLINE", populationPercent |-> 100]}

\* The time a poll can take, in ms
PollDurations == {PollIntervalMs * k : k \in 0..MaxLateness}

\* The time the timer can take, in ms: its delay at least
SleepDurations == {PollIntervalMs * (1 + k) : k \in 0..MaxLateness}

\* A wrong test of the poll: the population is not read.
IsOnline(status) == status.found /\ status.state = "ONLINE"

\* state === 'ONLINE' && populationPercent === 100.0, of the first record
IsReady(status) ==
  /\ status.found
  /\ status.state = "ONLINE"
  /\ status.populationPercent = 100

\* The Error thrown by waitForIndexPopulation
TimeoutMessage(indexName, maxWaitMs) ==
  "Vector index " \o indexName \o " did not populate within "
    \o ToString(maxWaitMs) \o "ms"

WaitApply(w, op) ==
  /\ wait' = w
  /\ lastOp' = op
  /\ UNCHANGED <<hashFunction, maxActiveTools, toolRegistry, toolsetHash,
                 cypherBuilder, migrated, hashInput, db>>
  /\ UNCHANGED <<fpVars, asyncVars>>

\* sync(options) up to the call of waitForIndexPopulation: the hash, the
\* migration, then startTime = Date.now() and the session when the index is
\* waited for, and the return when it is not
WaitSync ==
  \E options \in WaitInputs :
    /\ wait.pc \in {"idle", "resolved", "rejected"}
    /\ hashInput' = jsonStringOf(toolRegistry)
    /\ toolsetHash' = activeHashFunction(hashFunction, hashInput')
    /\ cypherBuilder' = toolsetHash'
    /\ LET r == ensureMigrated(FALSE, toolsetHash', cypherBuilder',
                               toolRegistry, db, "none")
       IN  /\ migrated' = r.migrated
           /\ db' = r.db
           /\ wait' = [NoWait EXCEPT
                         !.pc = IF options.waitForIndex THEN "test"
                                ELSE "resolved",
                         !.waitForIndex = options.waitForIndex,
                         !.maxWaitMs = options.maxWaitMs]
           /\ lastOp' =
                IF options.waitForIndex
                THEN Op("sync", options.waitForIndex, "pending", None,
                        r.trace \o <<"session">>)
                ELSE Op("sync", options.waitForIndex, "ok",
                        [hash |-> toolsetHash'], r.trace)
    /\ UNCHANGED <<hashFunction, maxActiveTools, toolRegistry>>
    /\ UNCHANGED <<fpVars, asyncVars>>

\* while (Date.now() - startTime < maxWaitMs): the poll is issued, or the
\* Error is thrown and the session closed
WaitTest ==
  /\ wait.pc = "test"
  /\ IF wait.elapsed < wait.maxWaitMs
     THEN WaitApply([wait EXCEPT !.pc = "poll", !.polls = @ + 1,
                                 !.issued = wait.elapsed],
                    [lastOp EXCEPT !.trace = @ \o <<"checkVectorIndex">>])
     ELSE WaitApply([wait EXCEPT !.pc = "rejected"],
                    Op("sync", wait.waitForIndex, "error",
                       [error |-> TimeoutMessage(IndexName, wait.maxWaitMs)],
                       lastOp.trace \o <<"close">>))

\* await session.run(checkStatement...) returns: sync returns when the
\* record is ONLINE and 100, else the timer is set
WaitPoll ==
  /\ wait.pc = "poll"
  /\ \E status \in IndexStatuses : \E ms \in PollDurations :
       LET w == [wait EXCEPT !.elapsed = @ + ms,
                             !.state = status.state,
                             !.populationPercent = status.populationPercent,
                             !.ready = @ \/ (/\ status.state = "ONLINE"
                                             /\ status.populationPercent
                                                  = 100)]
       IN  IF IsReady(status)
           THEN WaitApply([w EXCEPT !.pc = "resolved"],
                          Op("sync", wait.waitForIndex, "ok",
                             [hash |-> toolsetHash],
                             lastOp.trace \o <<"close">>))
           ELSE WaitApply([w EXCEPT !.pc = "sleep"], lastOp)

\* await new Promise(resolve => setTimeout(resolve, 500)) returns
WaitSleep ==
  /\ wait.pc = "sleep"
  /\ \E ms \in SleepDurations :
       WaitApply([wait EXCEPT !.pc = "test", !.elapsed = @ + ms], lastOp)

\* The registry changes between two calls of sync
WaitAddTool ==
  /\ wait.pc \in {"idle", "resolved", "rejected"}
  /\ Len(toolRegistry) < 2
  /\ \E input \in ToolInputs : addTool(input.name, input.tool)
  /\ UNCHANGED <<fpVars, wait, asyncVars>>

NextWait ==
  \/ WaitSync
  \/ WaitTest
  \/ WaitPoll
  \/ WaitSleep
  \/ WaitAddTool

\* Every poll and every timer returns
WaitFairness ==
  /\ WF_vars(WaitTest)
  /\ WF_vars(WaitPoll)
  /\ WF_vars(WaitSleep)

\* One client whose sync is run step by step
SpecWait == Init /\ [][NextWait]_vars /\ WaitFairness



-----------------------------------------------------------------------------
(* sync and generateText step by step: ensureMigrated is suspended at each *)
(* await, and in between run the other call, the calls of a second client  *)
(* of the same store, addTool and removeTool                               *)

\* The values of config.migration.onBeforeMigrate: absent, or a hook that
\* returns the statement of an empty migration followed by the statement
\* it was given: the ToolSet node first, the tools after
Migrations == {"none", "split"}

\* The (name, tool) pairs offered to addTool while a call is suspended
AsyncToolInputs == {Entry("a", ToolAa), Entry("B", ToolWrapped)}

InProgress(call) == call.pc \notin {"idle", "done"}

\* The closure of client c: the first client or its peer
ClientState(c) ==
  IF c = 1
  THEN [toolRegistry |-> toolRegistry, toolsetHash |-> toolsetHash,
        cypherBuilder |-> cypherBuilder, migrated |-> migrated]
  ELSE peer

SetClient(c, k) ==
  IF c = 1
  THEN /\ toolRegistry' = k.toolRegistry
       /\ toolsetHash' = k.toolsetHash
       /\ cypherBuilder' = k.cypherBuilder
       /\ migrated' = k.migrated
       /\ peer' = peer
  ELSE /\ peer' = k
       /\ UNCHANGED <<toolRegistry, toolsetHash, cypherBuilder, migrated>>

\* statements = await migration.onBeforeMigrate(statements)
onBeforeMigrate(hook, statements) ==
  IF hook = "split"
  THEN <<[hash |-> statements[1].hash, tools |-> <<>>]>> \o statements
  ELSE statements

AsyncFrame ==
  UNCHANGED <<hashFunction, maxActiveTools, lastOp, migration, fpVars, wait>>

\* A client with the configuration and the tools of the first
AsyncInit ==
  /\ ClientInit
  /\ hashFunction = "default"
  /\ peer = [toolRegistry |-> toolRegistry, toolsetHash |-> toolsetHash,
             cypherBuilder |-> cypherBuilder, migrated |-> FALSE]
  /\ migration \in Migrations
  /\ fpT = <<>>
  /\ fpU = <<>>
  /\ fpOutT = ""
  /\ fpOutU = ""

\* sync() or generateText() of client c, up to the first await of
\* ensureMigrated: the query of defaultShouldMigrate is sent with the
\* toolsetHash of this moment
AsyncStart(i, c, op) ==
  /\ calls[i].pc = "idle"
  /\ i = 2 => calls[1].pc # "idle"
  /\ c = 2 => (i = 2 /\ op = "sync")
  /\ LET k == ClientState(c)
         hash == IF op = "sync"
                 THEN computeToolsetHash(hashFunction, k.toolRegistry)
                 ELSE k.toolsetHash
         k1 == IF op = "sync"
               THEN [k EXCEPT !.toolsetHash = hash, !.cypherBuilder = hash,
                              !.migrated = FALSE]
               ELSE k
         overlap == \E j \in CallIds \ {i} : InProgress(calls[j])
     IN  /\ SetClient(c, k1)
         /\ hashInput' = IF op = "sync" /\ c = 1
                         THEN jsonStringOf(k.toolRegistry) ELSE hashInput
         /\ calls' =
              [j \in CallIds |->
                 IF j = i
                 THEN [NoCall EXCEPT
                         !.op = op, !.client = c, !.hash = hash,
                         !.overlap = overlap,
                         !.pc = IF k1.migrated THEN "done" ELSE "check",
                         !.outcome = IF k1.migrated THEN "ok" ELSE ""]
                 ELSE IF InProgress(calls[j]) /\ ~k1.migrated
                 THEN [calls[j] EXCEPT !.overlap = TRUE]
                 ELSE calls[j]]
  /\ UNCHANGED db
  /\ AsyncFrame

\* await shouldMigrate(session) returns: the store has counted the ToolSet
\* nodes with the hash it was sent
AsyncCheck(i) ==
  /\ calls[i].pc = "check"
  /\ LET k == ClientState(calls[i].client)
         need == defaultShouldMigrate(db, calls[i].hash)
     IN  IF need
         THEN /\ calls' = [calls EXCEPT ![i].pc = "index", ![i].need = TRUE]
              /\ SetClient(calls[i].client, k)
         ELSE /\ calls' = [calls EXCEPT ![i].pc = "close",
                                        ![i].outcome = "ok"]
              /\ SetClient(calls[i].client, [k EXCEPT !.migrated = TRUE])
  /\ UNCHANGED <<db, hashInput>>
  /\ AsyncFrame

\* await session.run(createVectorIndex) returns: the entries of the registry
\* are read and their embeddings requested
AsyncIndex(i) ==
  /\ calls[i].pc = "index"
  /\ db' = [db EXCEPT !.index = TRUE]
  /\ calls' = [calls EXCEPT
                 ![i].pc = "embed",
                 ![i].tools = ClientState(calls[i].client).toolRegistry]
  /\ UNCHANGED <<toolRegistry, toolsetHash, cypherBuilder, migrated, peer,
                 hashInput>>
  /\ AsyncFrame

\* await Promise.all(...) returns: cypherBuilder.migrate({ tools }) builds
\* the statement with the builder of this moment, the hook is applied
AsyncEmbed(i) ==
  /\ calls[i].pc = "embed"
  /\ calls' =
       [calls EXCEPT
          ![i].pc = "run",
          ![i].statements =
            onBeforeMigrate(
              migration,
              <<[hash |-> ClientState(calls[i].client).cypherBuilder,
                 tools |-> toolsWithEmbeddings(calls[i].tools)]>>)]
  /\ UNCHANGED <<toolRegistry, toolsetHash, cypherBuilder, migrated, peer,
                 hashInput, db>>
  /\ AsyncFrame

\* await session.run(stmt.cypher, stmt.params) returns or throws: a
\* statement that throws writes nothing; after the last one migrated = true.
\* The statements made to throw are those of the first call.
AsyncRun(i, throws) ==
  /\ calls[i].pc = "run"
  /\ throws => i = 1
  /\ LET k == ClientState(calls[i].client)
         stmt == Head(calls[i].statements)
         rest == Tail(calls[i].statements)
     IN  IF throws
         THEN /\ calls' = [calls EXCEPT ![i].pc = "close",
                                        ![i].outcome = "error"]
              /\ SetClient(calls[i].client, k)
              /\ UNCHANGED db
         ELSE /\ db' = migrate(db, stmt.hash, stmt.tools)
              /\ calls' = [calls EXCEPT
                             ![i].statements = rest,
                             ![i].writes = @ + 1,
                             ![i].pc = IF rest = <<>> THEN "close" ELSE "run",
                             ![i].outcome = IF rest = <<>> THEN "ok" ELSE ""]
              /\ SetClient(calls[i].client,
                           IF rest = <<>> THEN [k EXCEPT !.migrated = TRUE]
                           ELSE k)
  /\ UNCHANGED hashInput
  /\ AsyncFrame

\* await session.close() returns and the call ends: sync returns
\* { hash: toolsetHash }, read at this moment
AsyncFinish(i) ==
  /\ calls[i].pc = "close"
  /\ calls' =
       [calls EXCEPT
          ![i].pc = "done",
          ![i].returned =
            IF calls[i].op = "sync" /\ calls[i].outcome = "ok"
            THEN ClientState(calls[i].client).toolsetHash ELSE ""]
  /\ UNCHANGED <<toolRegistry, toolsetHash, cypherBuilder, migrated, peer,
                 hashInput, db>>
  /\ AsyncFrame

\* The changes of the registry studied: one, made while a call of the
\* first client is suspended
MayChange ==
  /\ \E j \in CallIds : InProgress(calls[j]) /\ calls[j].client = 1
  /\ \A j \in CallIds : ~calls[j].changed

\* The calls of the first client that are suspended see the registry change
Changed ==
  [j \in CallIds |->
     IF InProgress(calls[j]) /\ calls[j].client = 1
     THEN [calls[j] EXCEPT !.changed = TRUE] ELSE calls[j]]

AsyncAddTool ==
  /\ MayChange
  /\ \E e \in AsyncToolInputs : addTool(e.name, e.tool)
  /\ calls' = Changed
  /\ UNCHANGED <<peer, migration, fpVars, wait>>

AsyncRemoveTool ==
  /\ MayChange
  /\ \E name \in Names :
       /\ Has(toolRegistry, name)
       /\ removeTool(name)
  /\ calls' = Changed
  /\ UNCHANGED <<peer, migration, fpVars, wait>>

NextAsync ==
  \/ \E i \in CallIds, c \in {1, 2}, op \in {"sync", "generateText"} :
       AsyncStart(i, c, op)
  \/ \E i \in CallIds : AsyncCheck(i)
  \/ \E i \in CallIds : AsyncIndex(i)
  \/ \E i \in CallIds : AsyncEmbed(i)
  \/ \E i \in CallIds, throws \in BOOLEAN : AsyncRun(i, throws)
  \/ \E i \in CallIds : AsyncFinish(i)
  \/ AsyncAddTool
  \/ AsyncRemoveTool

\* Two calls, of one client or of two, interleaved at their awaits
SpecAsync == AsyncInit /\ [][NextAsync]_vars

-----------------------------------------------------------------------------
(* What a registry says, whatever the order it is written in               *)

\* A value without the order of its keys: an object is the set of its
\* members, a member whose value is undefined is no member
RECURSIVE Logical(_)
Logical(v) ==
  IF v.t = "obj"
  THEN [t |-> "obj",
        members |-> {[k |-> v.kv[i].k, v |-> Logical(v.kv[i].v)] :
                       i \in {j \in 1..Len(v.kv) : v.kv[j].v.t # "undef"}}]
  ELSE IF v.t = "arr"
  THEN [t |-> "arr",
        items |-> [i \in 1..Len(v.items) |-> Logical(v.items[i])]]
  ELSE v

\* A registry without the order of its tools: each name with the
\* description and the input schema of its tool
LogicalRegistry(registry) ==
  [t |-> "obj",
   members |->
     {[k |-> registry[i].name,
       v |-> Logical(JObj(<<KV("description", registry[i].tool.description),
                            KV("inputSchema", registry[i].tool.inputSchema)>>))] :
        i \in 1..Len(registry)}]

RECURSIVE Canonical(_)
RECURSIVE CanonicalMembers(_)

\* The members of an object, the smallest key first
CanonicalMembers(members) ==
  IF members = {} THEN <<>>
  ELSE LET m == CHOOSE x \in members :
                  \A y \in members \ {x} : StrLess(x.k, y.k)
       IN  <<Quote(m.k) \o ":" \o Canonical(m.v)>>
           \o CanonicalMembers(members \ {m})

\* The JSON text of a value without order, keys ascending by code unit
Canonical(l) ==
  IF l.t = "str" THEN Quote(l.s)
  ELSE IF l.t = "arr"
  THEN "[" \o JoinComma([i \in 1..Len(l.items) |->
                           IF l.items[i].t = "undef" THEN "null"
                           ELSE Canonical(l.items[i])]) \o "]"
  ELSE IF l.t = "obj"
  THEN "{" \o JoinComma(CanonicalMembers(l.members)) \o "}"
  ELSE "null"

\* The canonical serialization of a registry: sorted by name, each tool
\* reduced to its description and input schema, every key sorted
CanonicalJson(registry) == Canonical(LogicalRegistry(registry))

HasToolSet(d, hash) == \E n \in d.toolsets : n.hash = hash

\* A ToolSet node with everything it owns
Snapshot(d, n) ==
  [node |-> n,
   tools |-> ToolsOf(d, n.id),
   params |-> UNION {ParamsOf(d, t.id) : t \in ToolsOf(d, n.id)},
   returnTypes |-> UNION {ReturnTypesOf(d, t.id) : t \in ToolsOf(d, n.id)}]

SnapshotIds(d, n) ==
  {n.id} \cup {x.id : x \in Snapshot(d, n).tools}
    \cup {x.id : x \in Snapshot(d, n).params}
    \cup {x.id : x \in Snapshot(d, n).returnTypes}

-----------------------------------------------------------------------------
(* Claims                                                                  *)

\* C1: getToolsetHash() is the fingerprint of the registry as it is now, in
\* every state reached by addTool, removeTool and sync; and removing a tool
\* right after it was added under a new name gives back the fingerprint
\* held before the addition.
C1_HashNeverStale ==
  /\ [](toolsetHash = computeToolsetHash(hashFunction, toolRegistry))
  /\ [][(/\ lastOp.op = "addTool"
         /\ ~lastOp.result.known
         /\ lastOp'.op = "removeTool"
         /\ lastOp'.arg = lastOp.arg)
        => toolsetHash' = lastOp.result.hash]_vars

\* A tool was removed after a sync and the fingerprint moved with it.
C1_Witness ==
  /\ lastOp.op = "removeTool"
  /\ lastOp.result.known
  /\ toolsetHash # lastOp.result.hash
  /\ db.toolsets # {}

\* C2: registries that say the same, whatever the order of their tools and
\* of the keys at any depth of their schemas, have the same fingerprint;
\* the order of array elements is kept in what is hashed.
C2_OrderIndependent ==
  /\ LogicalRegistry(fpT) = LogicalRegistry(fpU) => fpOutT = fpOutU
  /\ LogicalRegistry(fpT) # LogicalRegistry(fpU)
       => jsonString(fpT) # jsonString(fpU)

\* Two tools registered in the other order, the nested keys of one of them
\* written in another order as well.
C2_Witness ==
  /\ Len(fpT) = 2
  /\ Len(fpU) = 2
  /\ fpU[1].name = fpT[2].name
  /\ LogicalRegistry(fpT) = LogicalRegistry(fpU)
  /\ \E i \in 1..2 :
       /\ fpU[i].name = fpT[1].name
       /\ Get(schemaOf(fpU[i].tool), "properties")
            # Get(schemaOf(fpT[1].tool), "properties")

\* C3: with the default hash function two registries have the same
\* fingerprint exactly when their canonical serializations are identical,
\* so that any change of a description, a parameter or a tool changes the
\* fingerprint.
C3_EqualIffIdentical ==
  hashFunction = "default"
    => ((fpOutT = fpOutU) <=> (CanonicalJson(fpT) = CanonicalJson(fpU)))

C5_SyncedToolSetMatchesRegistry ==
  (hashFunction = "default" /\ lastOp.op = "sync" /\ lastOp.outcome = "ok")
    => /\ lastOp.result.hash = toolsetHash
       /\ getToolsetByHashRows(db, lastOp.result.hash) # {}
       /\ \A row \in getToolsetByHashRows(db, lastOp.result.hash) :
            /\ row.toolCount = Len(toolRegistry)
            /\ Cardinality(row.tools) = Len(toolRegistry)

\* C6: a sync that finds a ToolSet with the current fingerprint leaves the
\* store as it is, creates no index, requests no embedding, runs no
\* migration, and marks the client migrated unless the existence check
\* itself threw; a sync that follows a resolved sync leaves the store as
\* it is.
C6_NoWriteWhenPresent ==
  [][lastOp'.op = "sync"
       => /\ HasToolSet(db, toolsetHash')
               => /\ db' = db
                  /\ ~InTrace(lastOp'.trace, "createVectorIndex")
                  /\ ~InTrace(lastOp'.trace, "embeddings")
                  /\ ~InTrace(lastOp'.trace, "migrate")
                  /\ (\/ lastOp'.outcome = "ok"
                      \/ InTrace(lastOp'.trace, "checkVectorIndex"))
                       => migrated'
          /\ (lastOp.op = "sync" /\ lastOp.outcome = "ok") => db' = db]_vars

\* A sync resolved without writing: the ToolSet of the registry's tools was
\* there already.
C6_Witness ==
  /\ lastOp.op = "sync"
  /\ lastOp.outcome = "ok"
  /\ ~InTrace(lastOp.trace, "migrate")
  /\ migrated
  /\ \E n \in db.toolsets : n.hash = toolsetHash /\ ToolsOf(db, n.id) # {}

C8_DeleteLeavesOtherToolSets ==
  [][lastOp'.op = "deleteToolsetByHash"
       => /\ \A n \in db.toolsets :
               n.hash # lastOp'.arg
                 => /\ n \in db'.toolsets
                    /\ Snapshot(db', n) = Snapshot(db, n)
                    /\ getToolsetByHashRows(db', n.hash)
                         = getToolsetByHashRows(db, n.hash)
                    /\ getToolsetByHashRows(db', n.hash) # {}
          /\ LET gone == UNION {SnapshotIds(db, n) :
                                  n \in {m \in db.toolsets :
                                           m.hash = lastOp'.arg}}
             IN  NodeIds(db') = NodeIds(db) \ gone
          /\ db'.index = db.index]_vars

\* A ToolSet was deleted and another one, with tools, is still there.
C8_Witness ==
  /\ lastOp.op = "deleteToolsetByHash"
  /\ lastOp.result.deletedToolsets = 1
  /\ lastOp.result.deletedTools > 0
  /\ \E n \in db.toolsets : ToolsOf(db, n.id) # {}

C10_LookupMiss ==
  [][(/\ lastOp'.op \in {"getToolsetByHash", "deleteToolsetByHash"}
      /\ ~HasToolSet(db, lastOp'.arg))
       => /\ lastOp'.outcome = "ok"
          /\ lastOp'.op = "getToolsetByHash" => lastOp'.result = Null
          /\ lastOp'.op = "deleteToolsetByHash" => lastOp'.result = ZeroCounts
          /\ UNCHANGED <<db, toolRegistry, toolsetHash, cypherBuilder,
                         migrated>>]_vars

\* A delete of a hash that is not the client's found nothing and left the
\* ToolSets of the store in place.
C10_Witness ==
  /\ lastOp.op = "deleteToolsetByHash"
  /\ lastOp.result = ZeroCounts
  /\ lastOp.arg # toolsetHash
  /\ HasToolSet(db, toolsetHash)

SeqToSet(seq) == {seq[i] : i \in 1..Len(seq)}

NoDuplicates(seq) ==
  \A i \in 1..Len(seq) : \A j \in 1..Len(seq) : seq[i] = seq[j] => i = j

RegisteredNames == {toolRegistry[i].name : i \in 1..Len(toolRegistry)}

\* C11: a generateText given activeTools hands to the text generation the
\* listed names that the registry has, each once, and no other; names the
\* registry lacks are dropped without error, maxActiveTools plays no part,
\* and the prompt is not embedded and no vector search is run.
C11_ExplicitToolsOverride ==
  (lastOp.op = "generateText" /\ lastOp.arg.activeTools.given)
    => /\ ~InTrace(lastOp.trace, "promptEmbedding")
       /\ ~InTrace(lastOp.trace, "vectorSearch")
       /\ lastOp.outcome = "ok"
            => /\ SeqToSet(lastOp.result.tools)
                    = SeqToSet(lastOp.arg.activeTools.items)
                        \cap RegisteredNames
               /\ NoDuplicates(lastOp.result.tools)
       /\ lastOp.outcome = "error"
            => \/ lastOp.result.error \in Faults
               \/ lastOp.arg.prompt = "" /\ ~lastOp.arg.messages.given

\* A list with an unknown name and more registered names than
\* maxActiveTools was given, and both registered tools were handed on.
C11_Witness ==
  /\ lastOp.op = "generateText"
  /\ lastOp.outcome = "ok"
  /\ lastOp.arg.activeTools.given
  /\ "zz" \in SeqToSet(lastOp.arg.activeTools.items)
  /\ Len(lastOp.result.tools) = 2
  /\ maxActiveTools = 1
  /\ db.tools # {}

\* C12: a generateText without activeTools hands to the text generation at
\* most maxActiveTools tools, all of the current registry, each once,
\* whatever Tool nodes the store holds.
C12_AtMostMaxActiveTools ==
  (/\ lastOp.op = "generateText"
   /\ ~lastOp.arg.activeTools.given
   /\ lastOp.outcome = "ok")
    => /\ Len(lastOp.result.tools) <= maxActiveTools
       /\ SeqToSet(lastOp.result.tools) \subseteq RegisteredNames
       /\ NoDuplicates(lastOp.result.tools)
       /\ InTrace(lastOp.trace, "vectorSearch")

\* The search ran over the Tool nodes of two snapshots, more than
\* maxActiveTools, for a registry of two tools, and one tool was handed on.
C12_Witness ==
  /\ lastOp.op = "generateText"
  /\ lastOp.outcome = "ok"
  /\ ~lastOp.arg.activeTools.given
  /\ maxActiveTools = 1
  /\ Len(toolRegistry) = 2
  /\ Cardinality(db.toolsets) = 2
  /\ Cardinality(db.tools) > 2
  /\ Len(lastOp.result.tools) = 1

\* The rows are in non-increasing order of relevance
NonIncreasing(rows) ==
  \A i \in 1..(Len(rows) - 1) : rows[i].relevance >= rows[i + 1].relevance

\* C13: the rows vectorSearchDecomposed returns, at each depth, are in
\* non-increasing order of similarity, number at most limit and all have a
\* score of at least minScore.
C13_SearchOrderedLimited ==
  (lastOp.op = "vectorSearchDecomposed" /\ lastOp.outcome = "ok") =>
    /\ NonIncreasing(lastOp.result)
    /\ Len(lastOp.result) <= lastOp.arg.limit
    /\ \A i \in 1..Len(lastOp.result) :
         lastOp.result[i].relevance >= lastOp.arg.minScore

\* A search at depth full whose limit and minScore both cut: three Tool
\* nodes, one under minScore, two rows of different relevance returned
C13_Witness ==
  /\ lastOp.op = "vectorSearchDecomposed"
  /\ lastOp.outcome = "ok"
  /\ lastOp.arg.depth = "full"
  /\ lastOp.arg.limit = 2
  /\ lastOp.arg.minScore = 50
  /\ Len(lastOp.result) = 2
  /\ lastOp.result[1].relevance > lastOp.result[2].relevance
  /\ Cardinality(db.tools) > 2
  /\ \E t \in db.tools : Score(t, lastOp.arg.vector) < 50

\* The lists of names a search of the store can return at a depth
SearchNames(d, vector, limit, minScore, depth) ==
  {NamesOf(rows) :
     rows \in vectorSearchDecomposed(d, vector, limit, minScore, depth)}

\* C14: for the same store, query vector, limit and minScore, the depths
\* low, mid and full return the same tool names, also when the index holds
\* several Tool nodes with the same name, description and embedding.
C14_SameNamesAtEveryDepth ==
  db.index =>
    \A options \in SearchInputs :
      /\ SearchNames(db, options.vector, options.limit, options.minScore,
                     "low")
           = SearchNames(db, options.vector, options.limit,
                         options.minScore, "mid")
      /\ SearchNames(db, options.vector, options.limit, options.minScore,
                     "mid")
           = SearchNames(db, options.vector, options.limit,
                         options.minScore, "full")

\* The number of properties a tool declares
DeclaredProperties(tool) ==
  IF parametersOf(tool).t = "obj" THEN Len(parametersOf(tool).kv) ELSE 0

C16_EmptyMigration ==
  [][(/\ lastOp'.op = "migrate"
      /\ lastOp'.arg.tools = <<>>
      /\ ~HasToolSet(db, lastOp'.arg.hash)) =>
       /\ lastOp'.outcome = "ok"
       /\ \E n \in db'.toolsets :
            /\ n.hash = lastOp'.arg.hash
            /\ n.toolCount = 0
            /\ ToolsOf(db', n.id) = {}
       /\ db'.tools = db.tools
       /\ db'.params = db.params
       /\ db'.returnTypes = db.returnTypes
       /\ getToolsetByHashRows(db', lastOp'.arg.hash)
            = {[hash |-> lastOp'.arg.hash, toolCount |-> 0, tools |-> {}]}
    ]_vars

\* A ToolSet migrated with no tools, next to one that has tools, read back
C16_Witness ==
  /\ lastOp.op = "getToolsetByHash"
  /\ lastOp.result = {[hash |-> lastOp.arg, toolCount |-> 0, tools |-> {}]}
  /\ db.tools # {}

\* C18: after any sequence of migrations and deletions, of any hashes and
\* of the same hash repeatedly, every Tool node is attached to exactly one
\* ToolSet node and has exactly one ReturnType node, and every Parameter and
\* ReturnType node is attached to exactly one Tool node.
C18_NoSharingNoOrphans ==
  /\ \A t \in db.tools :
       /\ Cardinality({n \in db.toolsets : n.id = t.toolset}) = 1
       /\ Cardinality(ReturnTypesOf(db, t.id)) = 1
  /\ \A p \in db.params : Cardinality({t \in db.tools : t.id = p.tool}) = 1
  /\ \A r \in db.returnTypes :
       Cardinality({t \in db.tools : t.id = r.tool}) = 1

\* A hash migrated more than once, its ToolSet node holding more Tool nodes
\* than its toolCount, after a deletion of the other hash
C18_Witness ==
  /\ lastOp.op = "deleteToolsetByHash"
  /\ \E row \in lastOp.result : row.deletedTools > 0
  /\ \E n \in db.toolsets : Cardinality(ToolsOf(db, n.id)) > n.toolCount
  /\ db.params # {}

\* C17: in every store state reached by sync, generateText, addTool,
\* removeTool and deleteToolsetByHash of a client with the default existence
\* check, run one after another, the toolCount of every ToolSet node is the
\* number of Tool nodes attached to it by HAS_TOOL.
C17_ToolCountMatches ==
  \A n \in db.toolsets : n.toolCount = Cardinality(ToolsOf(db, n.id))

\* Two snapshots in the store, of two and of one tool, the client synced
\* again after a change of its registry
C17_Witness ==
  /\ lastOp.op \in {"sync", "generateText"}
  /\ lastOp.outcome = "ok"
  /\ \E n1 \in db.toolsets : \E n2 \in db.toolsets :
       /\ n1.toolCount = 2
       /\ n2.toolCount = 1
       /\ Cardinality(ToolsOf(db, n1.id)) = 2
       /\ Cardinality(ToolsOf(db, n2.id)) = 1

\* The calls of ensureMigrated that can throw, by the name of their error
MigrationCalls ==
  [shouldMigrate |-> "shouldMigrate", createVectorIndex |-> "createVectorIndex",
   embedding |-> "embeddings", migrate |-> "migrate"]

Count(trace, event) ==
  Cardinality({i \in 1..Len(trace) : trace[i] = event})

\* C19: when the existence check, the index creation, an embedding call or
\* the migration statement fails during ensureMigrated, run by sync or by
\* generateText, the caller gets that error, the client is left unsynced so
\* that its next sync or generateText runs the existence check again, no
\* call is made twice, none is made after the failing one but the close of
\* the session, and after an embedding failure no migration statement has
\* been run.
C19_MigrationErrorPropagates ==
  [][/\ (/\ lastOp'.op \in {"sync", "generateText"}
         /\ lastOp'.outcome = "error"
         /\ lastOp'.result.error \in DOMAIN MigrationCalls) =>
          LET trace == lastOp'.trace
              error == lastOp'.result.error
          IN  /\ Len(trace) >= 3
              /\ trace[Len(trace)] = "close"
              /\ trace[Len(trace) - 1] = MigrationCalls[error]
              /\ ~migrated'
              /\ Count(trace, "session") = 1
              /\ Count(trace, "shouldMigrate") = 1
              /\ Count(trace, "createVectorIndex") <= 1
              /\ Count(trace, "embeddings") <= Len(toolRegistry)
              /\ Count(trace, "migrate") <= 1
              /\ db'.toolsets = db.toolsets
              /\ db'.tools = db.tools
              /\ db'.params = db.params
              /\ db'.returnTypes = db.returnTypes
              /\ error = "embedding" =>
                   /\ ~InTrace(trace, "migrate")
                   /\ InTrace(trace, "createVectorIndex")
     /\ (lastOp'.op \in {"sync", "generateText"} /\ ~migrated) =>
          /\ Len(lastOp'.trace) >= 2
          /\ lastOp'.trace[2] = "shouldMigrate"
    ]_vars

\* An embedding call failed during generateText, after the index was
\* created, with an earlier snapshot in the store; the client is unsynced
C19_Witness ==
  /\ lastOp.op = "generateText"
  /\ lastOp.outcome = "error"
  /\ lastOp.result.error = "embedding"
  /\ ~migrated
  /\ db.index
  /\ db.toolsets # {}
  /\ defaultShouldMigrate(db, toolsetHash)

\* The sync call has returned or thrown
WaitOver == wait.pc \in {"resolved", "rejected"}

\* C20: sync({waitForIndex: true, maxWaitMs}) resolves only after a poll of
\* the index status has returned ONLINE with a population of 100, a poll
\* issued before maxWaitMs had elapsed; it rejects, with the error that
\* names the index, only when no poll has returned that and maxWaitMs has
\* elapsed; the call always ends, in one of these two ways; and with
\* waitForIndex: false no poll is issued.
C20_WaitResolvesOrTimesOut ==
  /\ []((wait.pc = "resolved" /\ wait.waitForIndex) =>
          /\ wait.polls >= 1
          /\ wait.ready
          /\ wait.state = "ONLINE"
          /\ wait.populationPercent = 100
          /\ wait.issued < wait.maxWaitMs
          /\ lastOp.op = "sync" => lastOp.outcome = "ok")
  /\ [](wait.pc = "rejected" =>
          /\ wait.waitForIndex
          /\ ~wait.ready
          /\ wait.elapsed >= wait.maxWaitMs
          /\ lastOp.op = "sync" =>
               /\ lastOp.outcome = "error"
               /\ lastOp.result.error
                    = "Vector index tool_vector_index did not populate within "
                        \o ToString(wait.maxWaitMs) \o "ms")
  /\ [](~wait.waitForIndex =>
          /\ wait.polls = 0
          /\ wait.pc \in {"idle", "resolved"})
  /\ (~WaitOver /\ wait.pc # "idle") ~> WaitOver

\* The call resolved by its second poll, issued before maxWaitMs had
\* elapsed and returned after
C20_Witness ==
  /\ wait.pc = "resolved"
  /\ wait.waitForIndex
  /\ wait.polls >= 2
  /\ wait.issued < wait.maxWaitMs
  /\ wait.elapsed >= wait.maxWaitMs

\* C20 as stated: the call rejects if no poll observes ONLINE and 100
\* before maxWaitMs has elapsed, so that it resolves only when a poll
\* observed that before maxWaitMs had elapsed.
C20_ResolvedWithinMaxWait ==
  (wait.pc = "resolved" /\ wait.waitForIndex) =>
    /\ wait.ready
    /\ wait.elapsed < wait.maxWaitMs

\* The sessions open after the first i calls of a trace
OpenSessions(trace, i) ==
  Cardinality({j \in 1..i : trace[j] = "session"})
    - Cardinality({j \in 1..i : trace[j] = "close"})

\* The calls a client operation makes on a session of the store
SessionCalls ==
  {"shouldMigrate", "createVectorIndex", "migrate", "checkVectorIndex",
   "vectorSearch", "getToolsetByHash", "deleteToolsetByHash"}

ToolsOfHash(d, hash) ==
  UNION {ToolsOf(d, n.id) : n \in {x \in d.toolsets : x.hash = hash}}

C26_FetchedStructure ==
  \A n \in db.toolsets :
    \A row \in getToolsetByHashRows(db, n.hash) :
      /\ Cardinality(row.tools) = Cardinality(ToolsOfHash(db, n.hash))
      /\ \A t \in ToolsOf(db, n.id) :
           \E entry \in row.tools :
             /\ entry.name = t.name
             /\ entry.description = t.description
             /\ Cardinality(entry.parameters)
                  = Cardinality(ParamsOf(db, t.id))
             /\ \A p \in ParamsOf(db, t.id) :
                  \E q \in entry.parameters : q.name = p.name
             /\ \E r \in ReturnTypesOf(db, t.id) :
                  entry.returnType.type = r.type

\* The property map of a tool as declared: that of the jsonSchema wrapper
\* when there is one, else that of the schema itself
DeclaredSchema(tool) ==
  IF Get(tool.inputSchema, "jsonSchema").t = "obj"
  THEN Get(tool.inputSchema, "jsonSchema")
  ELSE tool.inputSchema

C28_SyncedHasToolSet ==
  (hashFunction = "default" /\ migrated) => HasToolSet(db, toolsetHash)

\* Two inputs of a builder method have the same shape: as many tools and
\* as many properties of each tool for migrate, the same depth for
\* vectorSearchDecomposed, any two inputs for the other methods
SameShape(method, a, b) ==
  IF method = "migrate"
  THEN /\ Len(a.tools) = Len(b.tools)
       /\ \A i \in 1..Len(a.tools) :
            DeclaredProperties(a.tools[i].tool)
              = DeclaredProperties(b.tools[i].tool)
  ELSE IF method = "vectorSearchDecomposed" THEN a.depth = b.depth
  ELSE TRUE

BuilderMethods ==
  {"migrate", "vectorSearchDecomposed", "getToolsetByHash",
   "deleteToolsetByHash", "createVectorIndex", "checkVectorIndex"}

\* C22 as stated: the query text of every builder method is the same for
\* two inputs of the same shape, whatever the strings the caller supplies:
\* fingerprint, names, descriptions, index name.
C22_TextIndependentOfStrings ==
  (lastOp.op \in BuilderMethods /\ lastOp.outcome = "ok"
     /\ DOMAIN lastOp.result = {1, 2}) =>
    (SameShape(lastOp.op, lastOp.arg[1], lastOp.arg[2]) =>
       lastOp.result[1].cypher = lastOp.result[2].cypher)

\* Both calls have ended without an error, with the registry as it was
\* when they started
BothResolved ==
  /\ \A i \in CallIds :
       /\ calls[i].pc = "done"
       /\ calls[i].outcome = "ok"
       /\ ~calls[i].changed
  /\ toolsetHash = calls[1].hash

\* The migration statements the two calls have run
Writes == calls[1].writes + calls[2].writes

StoredIsRegistry ==
  /\ HasToolSet(db, toolsetHash)
  /\ {t.name : t \in ToolsOfHash(db, toolsetHash)} = RegisteredNames
  /\ Cardinality(ToolsOfHash(db, toolsetHash)) = Len(toolRegistry)

\* C29 as stated: when two calls of one client, the second started while
\* the first was suspended in ensureMigrated, have both resolved, the
\* migration statement has run at most once and the ToolSet of the
\* fingerprint holds as many Tool nodes as the registry holds tools.
C29_MigrationWrittenOnce ==
  (/\ BothResolved
   /\ migration = "none"
   /\ calls[1].client = 1 /\ calls[2].client = 1
   /\ calls[2].overlap) =>
    /\ Writes <= 1
    /\ Cardinality(ToolsOfHash(db, toolsetHash)) = Len(toolRegistry)

\* C30 as stated: when a sync() during which addTool or removeTool changed
\* the registry has resolved, the client is synced only if the store holds
\* a ToolSet for the final fingerprint with exactly the tools of the final
\* registry, and the hash sync() returned is that of a ToolSet in the store.
C30_InvalidationNotLost ==
  (/\ migration = "none"
   /\ calls[1].op = "sync" /\ calls[1].client = 1
   /\ calls[1].pc = "done" /\ calls[1].outcome = "ok"
   /\ calls[1].changed
   /\ calls[2].pc = "idle") =>
    /\ migrated => StoredIsRegistry
    /\ HasToolSet(db, calls[1].returned)

\* C25 as stated: when a sync() has failed after its first store write and
\* the next sync() of the client has resolved, the store holds a ToolSet
\* for the fingerprint with every tool of the registry attached, with or
\* without an onBeforeMigrate hook that splits the migration.
C25_SyncRepairsPartialWrite ==
  (/\ \A i \in CallIds :
        /\ calls[i].op = "sync" /\ calls[i].client = 1
        /\ calls[i].pc = "done"
        /\ ~calls[i].changed
   /\ calls[1].outcome = "error"
   /\ calls[2].outcome = "ok" /\ ~calls[2].overlap
   /\ toolsetHash = calls[2].returned) =>
    /\ HasToolSet(db, toolsetHash)
    /\ \A i \in 1..Len(toolRegistry) :
         \E t \in ToolsOfHash(db, toolsetHash) :
           t.name = toolRegistry[i].name

====
